---- MODULE Spec2Model ----
(***************************************************************************)
(* Model of src/server.js, the /api/count handler: the request from its    *)
(* arrival to its response (launch, navigation, browser.close, the error   *)
(* response), the text line-break detector evaluated inside every frame,   *)
(* the titles of the preview containers, the frame scan that merges the    *)
(* per-frame results into hlMatches, the final filter and the flattening   *)
(* of the response, the regex fallback for marker iframes, the resolver    *)
(* associateElementsForType, and two requests whose handlers interleave.   *)
(*                                                                         *)
(* Strings are sequences of atoms.  An atom is one character, or a word    *)
(* that no operation of the handler looks inside ("MAZDA", "jvxBase_").    *)
(* slice, indexOf, includes, startsWith, trim and toLowerCase are computed *)
(* atom by atom, as the JavaScript computes them character by character.   *)
(***************************************************************************)
EXTENDS Integers, Sequences, FiniteSets, TLC

VARIABLES
    pc,          \* position of the modelled run
    det,         \* detector: the inputs of one isPhraseSingleLineRobust call
    detOut,      \* detector: what the call computed
    page,        \* scan: the main document (marker iframes, title map, raw HTML)
    frames,      \* scan: page.frames(), each with its document
    fi,          \* scan: index of the next frame of the for-loop (1-based)
    hlMatches,   \* scan: the array built by the frame scan
    jvxFrames,   \* scan: marker iframes (DOM query, then regex fallback)
    fallback,    \* scan (history): the DOM query result, what the regex
                 \* fallback did, and the raw HTML of the page at that time
    response,    \* scan: the object passed to res.json
    url,         \* request: req.query.url (empty when missing)
    browser,     \* request: "none", "open", "closed", or "closeFailed" when
                 \* browser.close() was awaited and rejected
    attempt,     \* request: attempt of the launch or navigation loop that is
                 \* running (0 outside them)
    waited,      \* request (history): the delays waited between the attempts
                 \* of the loop that is running, each [ms, connection]: the
                 \* time and whether a connection error triggered the retry
    navigated,   \* request: page.goto(url) has succeeded
    status,      \* request: HTTP status of the response (0 before it is sent)
    sent,        \* request (history): number of responses sent
    previewVariationTitles, \* scan: the titles of the preview containers
    peer,        \* two requests: the locals of the handler that is suspended
                 \* at an await while the other one runs
    active,      \* two requests: the request whose handler is running
    rcfg,        \* resolver: collected elements and lookup maps of one request
    usedElementSet, \* resolver: the used-id set shared by the calls
    call,        \* resolver: inputs and result of the last call
    returnedIds, \* resolver (history): ids returned by the calls so far
    dupReturn    \* resolver (history): some call returned an id returned before

vars == <<pc, det, detOut, page, frames, fi, hlMatches, jvxFrames, fallback, response,
          url, browser, attempt, waited, navigated, status, sent,
          previewVariationTitles, peer, active,
          rcfg, usedElementSet, call, returnedIds, dupReturn>>

detVars == <<det, detOut>>
reqVars == <<url, browser, attempt, waited, navigated, status, sent>>
pairVars == <<peer, active>>
scanVars == <<page, frames, fi, hlMatches, jvxFrames, fallback, response,
              reqVars, previewVariationTitles, pairVars>>
resVars == <<rcfg, usedElementSet, call, returnedIds, dupReturn>>

\* JavaScript null / undefined (a record, so that it compares with records)
Null == [null |-> TRUE]

(***************************************************************************)
(* Bounds                                                                  *)
(***************************************************************************)
MaxNodes == 2      \* text nodes under one element (detector inputs)
MaxTextLen == 4    \* atoms in the text of one element (detector inputs)
MaxRects == 2      \* client rectangles a range can yield (detector inputs)

(***************************************************************************)
(* String helpers                                                          *)
(***************************************************************************)
\* the class /\s/ (and what String.prototype.trim strips), on the atoms used
WhiteSpace == {" ", "\t", "\n"}

IsSpace(ch) == ch \in WhiteSpace

\* String.prototype.toLowerCase on one atom
LowerAtom(ch) ==
    CASE ch = "MAZDA" -> "mazda"
      [] ch = "MAZDA2" -> "mazda2"
      [] ch = "Mazda" -> "mazda"
      [] ch = "CX-5" -> "cx-5"
      [] ch = "CX-60" -> "cx-60"
      [] ch = "CX-30" -> "cx-30"
      [] ch = "CX-80" -> "cx-80"
      [] ch = "MX-5" -> "mx-5"
      [] ch = "MX-30" -> "mx-30"
      [] ch = "HYBRID" -> "hybrid"
      [] ch = "Preview" -> "preview"
      [] OTHER -> ch

toLowerCase(s) == [i \in 1..Len(s) |-> LowerAtom(s[i])]

\* s.slice(from) with a 0-based index, as a sequence
SliceFrom(s, from) == SubSeq(s, from + 1, Len(s))

\* the sequences over S of length 0..n
SeqsUpTo(S, n) == UNION {[1..k -> S] : k \in 0..n}

\* t occurs in s at the 0-based index i
MatchAt(s, t, i) ==
    /\ i >= 0
    /\ i + Len(t) <= Len(s)
    /\ SubSeq(s, i + 1, i + Len(t)) = t

\* String.prototype.indexOf(t, from): 0-based index of the first match at
\* or after from, -1 when there is none
indexOf(s, t, from) ==
    LET hits == {i \in from..(Len(s) - Len(t)) : MatchAt(s, t, i)}
    IN  IF hits = {} THEN -1
        ELSE CHOOSE i \in hits : \A j \in hits : i <= j

\* String.prototype.includes
includes(s, t) == indexOf(s, t, 0) # -1

\* String.prototype.startsWith
startsWith(s, t) == MatchAt(s, t, 0)

\* String.prototype.endsWith
endsWith(s, t) == MatchAt(s, t, Len(s) - Len(t))

\* the first element of a list as a list of at most one element (what
\* Array.prototype.find gives on a list already filtered)
FirstOf(list) == IF list = <<>> THEN <<>> ELSE <<Head(list)>>

\* String.prototype.trim
RECURSIVE trimStart(_)
trimStart(s) ==
    IF s # <<>> /\ IsSpace(Head(s)) THEN trimStart(Tail(s)) ELSE s

RECURSIVE trimEnd(_)
trimEnd(s) ==
    IF s # <<>> /\ IsSpace(s[Len(s)]) THEN trimEnd(SubSeq(s, 1, Len(s) - 1)) ELSE s

trim(s) == trimEnd(trimStart(s))

\* s.replace(/\s+/g, " "): every maximal run of whitespace becomes one space
RECURSIVE collapseSpaces(_, _)
collapseSpaces(s, inRun) ==
    IF s = <<>> THEN <<>>
    ELSE IF IsSpace(Head(s))
         THEN (IF inRun THEN <<>> ELSE <<" ">>) \o collapseSpaces(Tail(s), TRUE)
         ELSE <<Head(s)>> \o collapseSpaces(Tail(s), FALSE)

(***************************************************************************)
(* Text line-break detector (evaluated inside each frame)                  *)
(***************************************************************************)
\* the target phrases, src/server.js:804
mazdaModels ==
    << <<"MAZDA", " ", "CX-60">>,
       <<"MAZDA", " ", "CX-30">>,
       <<"MAZDA2", " ", "HYBRID">>,
       <<"MAZDA", " ", "CX-80">>,
       <<"MAZDA", " ", "MX-5">>,
       <<"MAZDA", " ", "CX-5">>,
       <<"MAZDA", " ", "MX-30">> >>

\* the (node, offset) of every character, in the order the tree walker and
\* the inner loop visit them; offsets are 0-based, nodes are numbered from 1
RECURSIVE WalkPositions(_, _)
WalkPositions(textNodes, n) ==
    IF n > Len(textNodes) THEN <<>>
    ELSE [i \in 1..Len(textNodes[n]) |-> [node |-> n, offset |-> i - 1]]
         \o WalkPositions(textNodes, n + 1)

\* the inner loop without the collapse of whitespace runs
NormalizeChar_NoCollapse(acc, ch, pos) ==
    IF IsSpace(ch)
    THEN IF Len(acc.normalized) > 0
         THEN [normalized |-> Append(acc.normalized, " "),
               mapping |-> Append(acc.mapping, pos),
               lastWasSpace |-> TRUE]
         ELSE acc
    ELSE [normalized |-> Append(acc.normalized, ch),
          mapping |-> Append(acc.mapping, pos),
          lastWasSpace |-> FALSE]

\* one iteration of the inner loop of buildNormalizedTextAndMap
NormalizeChar(acc, ch, pos) ==
    IF IsSpace(ch)
    THEN IF ~acc.lastWasSpace /\ Len(acc.normalized) > 0
         THEN [normalized |-> Append(acc.normalized, " "),
               mapping |-> Append(acc.mapping, pos),
               lastWasSpace |-> TRUE]
         ELSE acc
    ELSE [normalized |-> Append(acc.normalized, ch),
          mapping |-> Append(acc.mapping, pos),
          lastWasSpace |-> FALSE]

RECURSIVE NormalizeWalk(_, _, _, _)
NormalizeWalk(textNodes, positions, k, acc) ==
    IF k > Len(positions) THEN acc
    ELSE NormalizeWalk(textNodes, positions, k + 1,
            NormalizeChar(acc, textNodes[positions[k].node][positions[k].offset + 1],
                          positions[k]))

\* if (normalized[0] === " ") { normalized = normalized.slice(1); mapping.shift(); }
StripLeadingSpace(walked) ==
    IF Len(walked.normalized) > 0 /\ walked.normalized[1] = " "
    THEN [normalized |-> Tail(walked.normalized), mapping |-> Tail(walked.mapping)]
    ELSE [normalized |-> walked.normalized, mapping |-> walked.mapping]

\* the trailing strip without mapping.pop()
StripTrailingSpace_KeepMap(a) ==
    IF Len(a.normalized) > 0 /\ a.normalized[Len(a.normalized)] = " "
    THEN [normalized |-> SubSeq(a.normalized, 1, Len(a.normalized) - 1),
          mapping |-> a.mapping]
    ELSE a

\* if (normalized[normalized.length - 1] === " ") { ...slice(0, -1); mapping.pop(); }
StripTrailingSpace(a) ==
    IF Len(a.normalized) > 0 /\ a.normalized[Len(a.normalized)] = " "
    THEN [normalized |-> SubSeq(a.normalized, 1, Len(a.normalized) - 1),
          mapping |-> SubSeq(a.mapping, 1, Len(a.mapping) - 1)]
    ELSE a

buildNormalizedTextAndMap(textNodes) ==
    StripTrailingSpace(StripLeadingSpace(
        NormalizeWalk(textNodes, WalkPositions(textNodes, 1), 1,
                      [normalized |-> <<>>, mapping |-> <<>>, lastWasSpace |-> FALSE])))

\* phrase.replace(/\s+/g, " ").trim(), src/server.js:859
targetNorm(phrase) == trim(collapseSpaces(phrase, FALSE))

\* the occurrence loop that stops at the first match whatever occurrence is
FindOccurrence_First(searchNormalized, targetToSearch, occurrence, i, from) ==
    indexOf(searchNormalized, targetToSearch, from)

\* the loop of createRangeForPhraseRobust that advances to the occurrence-th
\* match: returns idx
RECURSIVE FindOccurrence(_, _, _, _, _)
FindOccurrence(searchNormalized, targetToSearch, occurrence, i, from) ==
    LET idx == indexOf(searchNormalized, targetToSearch, from)
    IN  IF idx = -1 THEN -1
        ELSE IF i = occurrence THEN idx
        ELSE FindOccurrence(searchNormalized, targetToSearch, occurrence, i + 1,
                            idx + Len(targetToSearch))

\* caseInsensitive ? s.toLowerCase() : s
CaseOf(s, caseInsensitive) == IF caseInsensitive THEN toLowerCase(s) ELSE s

\* startMap = mapping[startIndex], endMap = mapping[endIndex]; Null when
\* either is missing, else the boundary points of the range
RangeBetween(mapping, startIndex, endIndex) ==
    IF ~(startIndex + 1 \in DOMAIN mapping) \/ ~(endIndex + 1 \in DOMAIN mapping)
    THEN Null
    ELSE [startNode |-> mapping[startIndex + 1].node,
          startOffset |-> mapping[startIndex + 1].offset,
          endNode |-> mapping[endIndex + 1].node,
          endOffset |-> mapping[endIndex + 1].offset + 1]

\* the part of createRangeForPhraseRobust after the occurrence loop
RangeOfIndex(nm, targetToSearch, idx) ==
    IF Len(nm.normalized) = 0 THEN Null
    ELSE IF idx = -1 THEN Null
    ELSE RangeBetween(nm.mapping, idx, idx + Len(targetToSearch) - 1)

\* the part of createRangeForPhraseRobust after buildNormalizedTextAndMap
RangeInNormalized(nm, targetToSearch, occurrence, caseInsensitive) ==
    RangeOfIndex(nm, targetToSearch,
        FindOccurrence(CaseOf(nm.normalized, caseInsensitive), targetToSearch,
                       occurrence, 0, 0))

\* Null, or the boundary points of the range
createRangeForPhraseRobust(textNodes, phrase, occurrence, caseInsensitive) ==
    IF phrase = <<>> THEN Null
    ELSE RangeInNormalized(buildNormalizedTextAndMap(textNodes),
                           CaseOf(targetNorm(phrase), caseInsensitive),
                           occurrence, caseInsensitive)

\* Array.from(res.range.getClientRects()): rectsOfRange rectangles
RectListOf(rectsOfRange) == [i \in 1..rectsOfRange |-> i]

\* the detector with singleLine = (rectsCount >= 1)
isPhraseSingleLineRobust_AtLeastOne(textNodes, phrase, occurrence, caseInsensitive, rectsOfRange) ==
    IF createRangeForPhraseRobust(textNodes, phrase, occurrence, caseInsensitive) = Null
    THEN [found |-> FALSE, singleLine |-> Null, rectsCount |-> 0, rects |-> <<>>]
    ELSE [found |-> TRUE, singleLine |-> (Len(RectListOf(rectsOfRange)) >= 1),
          rectsCount |-> Len(RectListOf(rectsOfRange)), rects |-> RectListOf(rectsOfRange)]

\* rectsOfRange: the number of rectangles getClientRects gives for the range
\* (the layout, an input of the model)
isPhraseSingleLineRobust(textNodes, phrase, occurrence, caseInsensitive, rectsOfRange) ==
    IF createRangeForPhraseRobust(textNodes, phrase, occurrence, caseInsensitive) = Null
    THEN [found |-> FALSE, singleLine |-> Null, rectsCount |-> 0, rects |-> <<>>]
    ELSE [found |-> TRUE, singleLine |-> (Len(RectListOf(rectsOfRange)) = 1),
          rectsCount |-> Len(RectListOf(rectsOfRange)), rects |-> RectListOf(rectsOfRange)]

(***************************************************************************)
(* Per-frame element collection (the f.evaluate callback of the scan)      *)
(*                                                                         *)
(* A DOM element is [id, textNodes, rectsOf]: rectsOf[m] is the number of  *)
(* client rectangles of the range found for mazdaModels[m].  A list field  *)
(* that the code sets to null is the empty sequence: the code stores null  *)
(* exactly when the list is empty (x.length > 0 ? x : null) and reads such *)
(* a field only through (x && x.length > 0) or (x || []).                  *)
(***************************************************************************)
\* el.outerHTML.substring(0, 500): the markup of the element, id and text
outerHTMLOf(el) == [id |-> el.id, textNodes |-> el.textNodes]

\* if (result.found && !result.singleLine) issues.push({...})
BrokenIssue(model, result) ==
    IF result.found /\ ~result.singleLine
    THEN << [model |-> model, found |-> TRUE, singleLine |-> FALSE,
             rectsCount |-> result.rectsCount] >>
    ELSE <<>>

\* the push of a status without the test of result.found
StatusEntry_NoFoundTest(model, result) ==
    << [model |-> model, found |-> TRUE,
        singleLine |-> (result.found /\ result.singleLine),
        rectsCount |-> result.rectsCount] >>

\* the push of a status for the phrases found on a single line only
StatusEntry_OnlySingle(model, result) ==
    IF result.found /\ result.singleLine
    THEN << [model |-> model, found |-> TRUE, singleLine |-> result.singleLine,
             rectsCount |-> result.rectsCount] >>
    ELSE <<>>

\* if (result.found) allModelStatuses.push({...})
StatusEntry(model, result) ==
    IF result.found
    THEN << [model |-> model, found |-> TRUE, singleLine |-> result.singleLine,
             rectsCount |-> result.rectsCount] >>
    ELSE <<>>

\* the loop of checkElementForBrokenModels over mazdaModels[m..]: issues
RECURSIVE BrokenFrom(_, _)
BrokenFrom(el, m) ==
    IF m > Len(mazdaModels) THEN <<>>
    ELSE BrokenIssue(mazdaModels[m],
                     isPhraseSingleLineRobust(el.textNodes, mazdaModels[m], 0, TRUE,
                                              el.rectsOf[m]))
         \o BrokenFrom(el, m + 1)

checkElementForBrokenModels(el) == BrokenFrom(el, 1)

\* the loop of processElements over mazdaModels[m..]: allModelStatuses
RECURSIVE StatusesFrom(_, _)
StatusesFrom(el, m) ==
    IF m > Len(mazdaModels) THEN <<>>
    ELSE StatusEntry(mazdaModels[m],
                     isPhraseSingleLineRobust(el.textNodes, mazdaModels[m], 0, TRUE,
                                              el.rectsOf[m]))
         \o StatusesFrom(el, m + 1)

processElement(el) ==
    [id |-> el.id,
     outerHTML |-> outerHTMLOf(el),
     brokenModels |-> checkElementForBrokenModels(el),
     allModelStatuses |-> StatusesFrom(el, 1)]

\* the eight id prefixes, in the order frm1..frm4 (HL) then frm1..frm4 (SL)
DigitAtom == <<"1", "2", "3", "4">>

CategoryPrefix(c) ==
    IF c <= 4 THEN <<"frm", DigitAtom[c], "_", "HL", "_">>
    ELSE <<"frm", DigitAtom[c - 4], "_", "SL", "_">>

\* the DOM elements that occur in the enumerated frames
AllRects(n) == [m \in 1..Len(mazdaModels) |-> n]

\* "MAZDA CX-60" split over two text nodes, rendered on two lines
ElBroken == [id |-> CategoryPrefix(1) \o <<"x">>,
             textNodes |-> << <<"\n", "MAZDA", " ">>, <<"\t", "CX-60">> >>,
             rectsOf |-> AllRects(2)]
\* "Mazda CX-5" on one line
ElSingle == [id |-> CategoryPrefix(2) \o <<"y">>,
             textNodes |-> << <<"Mazda", "\t", "CX-5">> >>,
             rectsOf |-> AllRects(1)]
\* no target phrase in the text
ElAbsent == [id |-> CategoryPrefix(1) \o <<"z">>,
             textNodes |-> << <<"MAZDA", "CX-5", " ", "CX-60">> >>,
             rectsOf |-> AllRects(2)]
\* a found phrase whose range has no rectangle
ElZero == [id |-> CategoryPrefix(5) \o <<"x">>,
           textNodes |-> << <<"MAZDA", " ", "MX-5">> >>,
           rectsOf |-> AllRects(0)]
\* an SL element whose id contains "_HL_", with one wrapped and one unwrapped phrase
ElTwo == [id |-> CategoryPrefix(7) \o <<"_", "HL", "_", "q">>,
          textNodes |-> << <<"MAZDA", " ", "CX-30", " ", "MAZDA", " ", "CX-80">> >>,
          rectsOf |-> [m \in 1..Len(mazdaModels) |-> IF m = 2 THEN 2 ELSE 1]]

ElementPool == {ElBroken, ElSingle, ElAbsent, ElZero, ElTwo}

\* processElement of every element of the pool, computed once
ProcessedElement == [el \in ElementPool |-> processElement(el)]

processElements(elements) == [i \in 1..Len(elements) |-> ProcessedElement[elements[i]]]

\* the fields of an hlMatches record that hold the eight lists, same order
CategoryFields ==
    <<"matches", "matches2", "matches3", "matches4",
      "matchesSL1", "matchesSL2", "matchesSL3", "matchesSL4">>

\* document.querySelectorAll('[id^="<prefix>"]'), in document order
SelectByPrefix(elements, prefix) ==
    LET Test(el) == startsWith(el.id, prefix)
    IN  SelectSeq(elements, Test)

\* allMatches of one frame: the eight processed lists; empty lists when the
\* evaluation throws (catch (evalError) sets all eight to null)
allMatchesOf(f) ==
    IF f.access = "ok"
    THEN [c \in 1..8 |-> processElements(SelectByPrefix(f.elements, CategoryPrefix(c)))]
    ELSE [c \in 1..8 |-> <<>>]

(***************************************************************************)
(* Frame scan                                                              *)
(***************************************************************************)
NA == <<"N/A">>
MarkerPrefix == <<"jvxBase_">>

\* creativeVariationMap: a Map, kept as the sequence of its entries in
\* insertion order.  Map.set of a present key replaces the value in place.
RECURSIVE MapSet(_, _, _)
MapSet(m, k, v) ==
    IF m = <<>> THEN << [key |-> k, value |-> v] >>
    ELSE IF Head(m).key = k THEN << [key |-> k, value |-> v] >> \o Tail(m)
    ELSE << Head(m) >> \o MapSet(Tail(m), k, v)

\* Map.get(k) || ''
MapGetOrEmpty(m, k) ==
    IF \E i \in 1..Len(m) : m[i].key = k
    THEN m[CHOOSE i \in 1..Len(m) : m[i].key = k].value
    ELSE <<>>

\* variations.forEach(v => creativeVariationMap.set(v.jvxBaseId, v.creativeVariation))
RECURSIVE BuildVariationMap(_, _)
BuildVariationMap(variations, m) ==
    IF variations = <<>> THEN m
    ELSE BuildVariationMap(Tail(variations),
                           MapSet(m, Head(variations).jvxBaseId, Head(variations).creativeVariation))

creativeVariationMap(pg) == BuildVariationMap(pg.variations, <<>>)

\* the page.evaluate that matches a frame to a marker iframe of the main
\* document; <<>> stands for null (a marker iframe id is never empty)
RECURSIVE MatchJvxBaseId(_, _, _)
MatchJvxBaseId(iframes, frameUrl, frameName) ==
    IF iframes = <<>> THEN <<>>
    ELSE LET iframe == Head(iframes)
         IN  IF frameName # <<>> /\ (iframe.name = frameName \/ iframe.id = frameName)
             THEN iframe.id
             ELSE IF /\ frameUrl # <<>>
                     /\ iframe.src # <<>>
                     /\ \/ iframe.src = frameUrl
                        \/ includes(frameUrl, iframe.id)
                        \/ includes(iframe.src, frameUrl)
             THEN iframe.id
             ELSE MatchJvxBaseId(Tail(iframes), frameUrl, frameName)

\* PRIORITY 3: the first map entry whose id occurs in the frame URL or name
RECURSIVE FirstUrlOrIdMatch(_, _, _, _)
FirstUrlOrIdMatch(m, frameUrl, frameName, matched) ==
    IF m = <<>> THEN <<>>
    ELSE IF \/ includes(frameUrl, Head(m).key)
            \/ (frameName # <<>> /\ includes(frameName, Head(m).key))
            \/ (matched # <<>> /\ matched = Head(m).key)
         THEN Head(m).value
         ELSE FirstUrlOrIdMatch(Tail(m), frameUrl, frameName, matched)

\* the creativeVariation of a frame with the title inside the frame asked first
creativeVariationOf_TitleFirst(cvMap, f, matched) ==
    IF f.access # "ok" THEN <<>>
    ELSE IF f.title # <<>> THEN f.title
    ELSE IF matched # <<>> /\ MapGetOrEmpty(cvMap, matched) # <<>>
    THEN MapGetOrEmpty(cvMap, matched)
    ELSE IF f.name # <<>> /\ MapGetOrEmpty(cvMap, f.name) # <<>>
    THEN MapGetOrEmpty(cvMap, f.name)
    ELSE IF f.url # <<>> THEN FirstUrlOrIdMatch(cvMap, f.url, f.name, matched)
    ELSE <<>>

\* the creativeVariation of a frame, PRIORITY 1 to 4; f.title is what the
\* query for .previewVariationTitle inside the frame returns ('' when there
\* is none or when that evaluation throws)
creativeVariationOf(cvMap, f, matched) ==
    IF f.access # "ok" THEN <<>>
    ELSE
    LET p1 == IF matched # <<>> THEN MapGetOrEmpty(cvMap, matched) ELSE <<>>
        p2 == IF p1 = <<>> /\ f.name # <<>> THEN MapGetOrEmpty(cvMap, f.name) ELSE p1
        p3 == IF p2 = <<>> /\ f.url # <<>>
              THEN FirstUrlOrIdMatch(cvMap, f.url, f.name, matched) ELSE p2
        p4 == IF p3 = <<>> THEN f.title ELSE p3
    IN  p4

\* the scan's label test without the exclusion of 'N/A'
IsScanValidLabel_AllowNA(label) == label # <<>>

\* creativeVariation && creativeVariation !== 'N/A' && creativeVariation !== ''
IsScanValidLabel(label) == label # <<>> /\ label # NA

\* hlMatches.findIndex(m => m.creativeVariation === label): 0 when absent
FindIndexByLabel(hl, label) ==
    IF \E i \in 1..Len(hl) : hl[i].creativeVariation = label
    THEN CHOOSE i \in 1..Len(hl) :
            /\ hl[i].creativeVariation = label
            /\ \A j \in 1..(i - 1) : hl[j].creativeVariation # label
    ELSE 0

\* the merge that replaces the lists instead of concatenating
MergeLists_Replace(existing, m) ==
    [existing EXCEPT !.matches = m[1], !.matches2 = m[2],
                     !.matches3 = m[3], !.matches4 = m[4],
                     !.matchesSL1 = m[5], !.matchesSL2 = m[6],
                     !.matchesSL3 = m[7], !.matchesSL4 = m[8]]

\* existing.matchesX = [...(existing.matchesX || []), ...(matchesX || [])]
MergeLists(existing, m) ==
    [existing EXCEPT !.matches = @ \o m[1], !.matches2 = @ \o m[2],
                     !.matches3 = @ \o m[3], !.matches4 = @ \o m[4],
                     !.matchesSL1 = @ \o m[5], !.matchesSL2 = @ \o m[6],
                     !.matchesSL3 = @ \o m[7], !.matchesSL4 = @ \o m[8]]

\* hasElements that looks at the four HL lists only
HasElements_HLOnly(m) == \E c \in 1..4 : Len(m[c]) > 0

HasElements(m) == \E c \in 1..8 : Len(m[c]) > 0

\* hlMatches.push({frameUrl, frameName, creativeVariation: creativeVariation || 'N/A', ...})
NewRecord(f, creativeVariation, m) ==
    [frameUrl |-> f.url,
     frameName |-> f.name,
     creativeVariation |-> IF creativeVariation = <<>> THEN NA ELSE creativeVariation,
     matches |-> m[1], matches2 |-> m[2], matches3 |-> m[3], matches4 |-> m[4],
     matchesSL1 |-> m[5], matchesSL2 |-> m[6], matchesSL3 |-> m[7],
     matchesSL4 |-> m[8]]

\* existingIndex: 0 when the label is not valid or no record has it
ExistingIndex(hl, creativeVariation) ==
    IF IsScanValidLabel(creativeVariation) THEN FindIndexByLabel(hl, creativeVariation) ELSE 0

\* if (isJvxBaseFrame || hasElements): merge into the existing record of the
\* label, or push a new record
RecordFrame(hl, f, creativeVariation, m, isJvxBaseFrame) ==
    IF ~(isJvxBaseFrame \/ HasElements(m)) THEN hl
    ELSE IF ExistingIndex(hl, creativeVariation) >= 1 /\ IsScanValidLabel(creativeVariation)
    THEN [hl EXCEPT ![ExistingIndex(hl, creativeVariation)] = MergeLists(@, m)]
    ELSE Append(hl, NewRecord(f, creativeVariation, m))

\* an iteration that gives up what was recorded when the frame cannot be read
ScanFrame_AbortOnError(hl, pg, f) ==
    IF f.access # "ok" THEN <<>>
    ELSE RecordFrame(hl, f,
                     creativeVariationOf(creativeVariationMap(pg), f,
                                         MatchJvxBaseId(pg.iframes, f.url, f.name)),
                     allMatchesOf(f),
                     (f.name # <<>> /\ startsWith(f.name, MarkerPrefix))
                        \/ MatchJvxBaseId(pg.iframes, f.url, f.name) # <<>>)

\* the iteration once matchedJvxBaseId is known
ScanFrameMatched(hl, pg, f, matched) ==
    RecordFrame(hl, f,
                creativeVariationOf(creativeVariationMap(pg), f, matched),
                allMatchesOf(f),
                (f.name # <<>> /\ startsWith(f.name, MarkerPrefix)) \/ matched # <<>>)

\* one iteration of the for-loop over page.frames(): the new hlMatches
ScanFrame(hl, pg, f) ==
    IF f.access = "urlError" THEN hl
    ELSE ScanFrameMatched(hl, pg, f, MatchJvxBaseId(pg.iframes, f.url, f.name))

(***************************************************************************)
(* Final filter, flattening and response                                   *)
(***************************************************************************)
RecordLists(match) == [c \in 1..8 |-> match[CategoryFields[c]]]

isValidCreativeVar(creativeVar) ==
    creativeVar # <<>> /\ creativeVar # NA /\ trim(creativeVar) # <<>>

\* the forEach that builds validHlMatches, from hlMatches[i] on
RECURSIVE FilterFrom(_, _, _, _)
FilterFrom(hl, i, validHlMatches, seenCreativeVariations) ==
    IF i > Len(hl) THEN validHlMatches
    ELSE
    LET match == hl[i]
        creativeVar == match.creativeVariation
        hasElements == HasElements(RecordLists(match))
    IN  IF isValidCreativeVar(creativeVar)
        THEN IF creativeVar \notin seenCreativeVariations
             THEN FilterFrom(hl, i + 1, Append(validHlMatches, match),
                             seenCreativeVariations \cup {creativeVar})
             ELSE LET existingIndex == FindIndexByLabel(validHlMatches, creativeVar)
                  IN  FilterFrom(hl, i + 1,
                          IF existingIndex >= 1
                          THEN [validHlMatches EXCEPT ![existingIndex] =
                                    MergeLists(@, RecordLists(match))]
                          ELSE validHlMatches,
                          seenCreativeVariations)
        ELSE IF hasElements
        THEN FilterFrom(hl, i + 1, Append(validHlMatches, match), seenCreativeVariations)
        ELSE FilterFrom(hl, i + 1, validHlMatches, seenCreativeVariations)

validHlMatchesOf(hl) == FilterFrom(hl, 1, <<>>, {})

\* allElementArrays of one record
RECURSIVE ConcatLists(_, _)
ConcatLists(lists, c) ==
    IF c > Len(lists) THEN <<>> ELSE lists[c] \o ConcatLists(lists, c + 1)

\* allElementArrays without the four SL lists
allElementArrays_HLOnly(match) == ConcatLists(SubSeq(RecordLists(match), 1, 4), 1)

allElementArrays(match) == ConcatLists(RecordLists(match), 1)

\* element.id && element.id.includes('_HL_') ? 'HL' : 'SL'
elementTypeOf(id) ==
    IF id # <<>> /\ includes(id, <<"_", "HL", "_">>) THEN "HL" ELSE "SL"

OrNA(label) == IF label = <<>> THEN NA ELSE label
OrUnknown(id) == IF id = <<>> THEN <<"Unknown">> ELSE id

\* the entries one record contributes to the flattened brokenModels
RECURSIVE BrokenEntries(_, _, _)
BrokenEntries(match, elems, k) ==
    IF k > Len(elems) THEN <<>>
    ELSE (IF Len(elems[k].brokenModels) > 0
          THEN << [creativeVariation |-> OrNA(match.creativeVariation),
                   elementId |-> OrUnknown(elems[k].id),
                   elementType |-> elementTypeOf(elems[k].id),
                   brokenModels |-> elems[k].brokenModels,
                   outerHTML |-> elems[k].outerHTML] >>
          ELSE <<>>)
         \o BrokenEntries(match, elems, k + 1)

\* the entries one record contributes to the flattened allModelStatuses
RECURSIVE StatusEntries(_, _, _)
StatusEntries(match, elems, k) ==
    IF k > Len(elems) THEN <<>>
    ELSE (IF Len(elems[k].allModelStatuses) > 0
          THEN << [creativeVariation |-> OrNA(match.creativeVariation),
                   elementId |-> OrUnknown(elems[k].id),
                   elementType |-> elementTypeOf(elems[k].id),
                   modelStatuses |-> elems[k].allModelStatuses,
                   outerHTML |-> elems[k].outerHTML] >>
          ELSE <<>>)
         \o StatusEntries(match, elems, k + 1)

RECURSIVE FlattenBroken(_, _)
FlattenBroken(valid, i) ==
    IF i > Len(valid) THEN <<>>
    ELSE BrokenEntries(valid[i], allElementArrays(valid[i]), 1) \o FlattenBroken(valid, i + 1)

RECURSIVE FlattenStatuses(_, _)
FlattenStatuses(valid, i) ==
    IF i > Len(valid) THEN <<>>
    ELSE StatusEntries(valid[i], allElementArrays(valid[i]), 1) \o FlattenStatuses(valid, i + 1)

\* the response object of src/server.js:1305
BuildResponse(hl, jvx) ==
    LET validHlMatches == validHlMatchesOf(hl)
    IN  [ok |-> TRUE,
         count |-> Len(jvx),
         frames |-> jvx,
         hlMatches |-> validHlMatches,
         brokenModels |-> FlattenBroken(validHlMatches, 1),
         allModelStatuses |-> FlattenStatuses(validHlMatches, 1)]

\* the DOM query for marker iframes: {id, src} of each
DomMarkerFrames(pg) == [i \in 1..Len(pg.iframes) |-> [id |-> pg.iframes[i].id, src |-> pg.iframes[i].src]]

\* the pattern without the g flag: the first match only
RegexIds_First(html) ==
    LET Test(v) == startsWith(v, MarkerPrefix) /\ Len(v) > Len(MarkerPrefix)
    IN  FirstOf(SelectSeq(html, Test))

\* html.matchAll(/id=["'](jvxBase_[^"']+)["']/g).map(m => m[1]); html is the
\* sequence of the quoted values that follow "id=" in the raw HTML
RegexIds(html) ==
    LET Test(v) == startsWith(v, MarkerPrefix) /\ Len(v) > Len(MarkerPrefix)
    IN  SelectSeq(html, Test)

FallbackFrames(html) ==
    LET ids == RegexIds(html) IN [i \in 1..Len(ids) |-> [id |-> ids[i], src |-> <<>>]]

(***************************************************************************)
(* Resolver: associateElementsForType                                      *)
(*                                                                         *)
(* A collected element is [id, frameUrl, frameName, jvxBaseId], the fields *)
(* the resolver reads.  An undefined containerIndex is Undefined.          *)
(***************************************************************************)
Undefined == -1

DigitAtoms == {"0", "1", "2", "3", "4", "5", "6", "7", "8", "9"}
DigitOf == <<"0", "1", "2", "3", "4", "5", "6", "7", "8", "9">>

\* `${n}` for an index; the template prints undefined as "undefined"
IndexString(n) == IF n = Undefined THEN <<"undefined">> ELSE <<DigitOf[n + 1]>>

\* `${titleText}__container_${containerIndex}`
ContainerKey(titleText, containerIndex) ==
    titleText \o <<"__container_">> \o IndexString(containerIndex)

\* the two maps filled from the containers the proximity pass found
\* (frameAssociations.forEach, src/server.js:1624): creativeElementAssociations
\* and titleFrameMap, each a Map kept as its entries in insertion order
RECURSIVE BuildAssociations(_, _)
BuildAssociations(assocs, m) ==
    IF assocs = <<>> THEN m
    ELSE LET assoc == Head(assocs)
             key == ContainerKey(assoc.title, assoc.containerIndex)
         IN  BuildAssociations(Tail(assocs), MapSet(m, key, assoc.elementIds))

MapHas(m, k) == \E i \in 1..Len(m) : m[i].key = k

RECURSIVE BuildTitleFrameMap(_, _)
BuildTitleFrameMap(assocs, m) ==
    IF assocs = <<>> THEN m
    ELSE LET assoc == Head(assocs)
             key == ContainerKey(assoc.title, assoc.containerIndex)
             m1 == IF assoc.frameUrl # <<>> THEN MapSet(m, key, assoc.frameUrl) ELSE m
             m2 == IF assoc.jvxBaseIframeId # <<>> /\ ~MapHas(m1, <<"jvxBase_">> \o key)
                   THEN MapSet(m1, <<"jvxBase_">> \o key, assoc.jvxBaseIframeId)
                   ELSE m1
         IN  BuildTitleFrameMap(Tail(assocs), m2)

\* titleText.match(/\d+/): the first maximal run of digits, <<>> when none
RECURSIVE DigitRun(_)
DigitRun(s) ==
    IF s = <<>> \/ Head(s) \notin DigitAtoms THEN <<>>
    ELSE <<Head(s)>> \o DigitRun(Tail(s))

RECURSIVE FirstNumber(_)
FirstNumber(s) ==
    IF s = <<>> THEN <<>>
    ELSE IF Head(s) \in DigitAtoms THEN DigitRun(s)
    ELSE FirstNumber(Tail(s))

\* allElements.filter(el => !usedElementSet.has(el.id))
UnusedOf(allElements, used) ==
    LET Test(el) == el.id \notin used IN SelectSeq(allElements, Test)

\* Strategy 1 without the test that the frame's element is unused
Strategy1_NoUsedCheck(cfg, used, titleText, containerIndex) ==
    LET containerKey == ContainerKey(titleText, containerIndex)
        jvxBaseId == MapGetOrEmpty(cfg.titleFrameMap, <<"jvxBase_">> \o containerKey)
        InFrame(el) == el.jvxBaseId = jvxBaseId
        frameElementsForType == SelectSeq(cfg.allElements, InFrame)
    IN  IF jvxBaseId # <<>> /\ jvxBaseId \in cfg.jvxBaseIds
        THEN FirstOf(frameElementsForType)
        ELSE <<>>

\* Strategy 1: the first unused element collected from the marker iframe of
\* the container.  elementsByJvxBaseId.get(id).frmN lists the elements of
\* allElements collected under that marker id, in collection order.
Strategy1(cfg, used, titleText, containerIndex) ==
    LET containerKey == ContainerKey(titleText, containerIndex)
        jvxBaseId == MapGetOrEmpty(cfg.titleFrameMap, <<"jvxBase_">> \o containerKey)
        InFrame(el) == el.jvxBaseId = jvxBaseId
        frameElementsForType == SelectSeq(cfg.allElements, InFrame)
    IN  IF jvxBaseId # <<>> /\ jvxBaseId \in cfg.jvxBaseIds
        THEN FirstOf(UnusedOf(frameElementsForType, used))
        ELSE <<>>

\* Strategy 2 without the test that the element is unused
Strategy2_NoUsedCheck(cfg, used, containerIndex) ==
    IF /\ Len(cfg.allElements) > 0
       /\ containerIndex # Undefined
       /\ containerIndex >= 0
       /\ containerIndex < Len(cfg.allElements)
    THEN <<cfg.allElements[containerIndex + 1]>>
    ELSE <<>>

\* Strategy 2 that wraps an index past the end round to the start
Strategy2_Wrap(cfg, used, containerIndex) ==
    IF /\ Len(cfg.allElements) > 0
       /\ containerIndex # Undefined
       /\ containerIndex >= 0
       /\ cfg.allElements[(containerIndex % Len(cfg.allElements)) + 1].id \notin used
    THEN <<cfg.allElements[(containerIndex % Len(cfg.allElements)) + 1]>>
    ELSE <<>>

\* Strategy 2: the element at position containerIndex
Strategy2(cfg, used, containerIndex) ==
    IF /\ Len(cfg.allElements) > 0
       /\ containerIndex # Undefined
       /\ containerIndex >= 0
       /\ containerIndex < Len(cfg.allElements)
       /\ cfg.allElements[containerIndex + 1].id \notin used
    THEN <<cfg.allElements[containerIndex + 1]>>
    ELSE <<>>

\* Strategy 3: the first associated id that is an unused element
RECURSIVE FirstAssociated(_, _, _)
FirstAssociated(associatedIds, allElements, used) ==
    IF associatedIds = <<>> THEN <<>>
    ELSE LET Test(el) == el.id = Head(associatedIds) /\ el.id \notin used
             fullElement == FirstOf(SelectSeq(allElements, Test))
         IN  IF fullElement # <<>> THEN fullElement
             ELSE FirstAssociated(Tail(associatedIds), allElements, used)

Strategy3(cfg, used, titleText, idx, containerIndex) ==
    LET associationKey ==
            ContainerKey(titleText, IF containerIndex # Undefined THEN containerIndex ELSE idx)
    IN  IF MapHas(cfg.creativeAssociationsMap, associationKey)
        THEN FirstAssociated(MapGetOrEmpty(cfg.creativeAssociationsMap, associationKey),
                             cfg.allElements, used)
        ELSE <<>>

\* Strategy 4: an unused element whose id contains the number of the title
ExactPattern(id, numStr, prefix) ==
    \/ includes(id, <<"-">> \o numStr)
    \/ includes(id, <<"_">> \o numStr)
    \/ includes(id, numStr \o <<"-">>)
    \/ includes(id, numStr \o <<"_">>)
    \/ includes(id, <<"x">> \o numStr)
    \/ includes(id, numStr \o <<"x">>)
    \/ endsWith(id, numStr)
    \/ includes(id, prefix \o numStr)

\* Strategy 4 without the preference: the first element containing the number
Strategy4_FirstContaining(unusedElements, titleText, prefix) ==
    LET numStr == FirstNumber(titleText)
        Contains(el) == el.id # <<>> /\ includes(el.id, numStr)
        matchingElements == SelectSeq(unusedElements, Contains)
    IN  IF numStr = <<>> \/ matchingElements = <<>> THEN <<>>
        ELSE <<matchingElements[1]>>

Strategy4(unusedElements, titleText, prefix) ==
    LET numStr == FirstNumber(titleText)
        Contains(el) == el.id # <<>> /\ includes(el.id, numStr)
        matchingElements == SelectSeq(unusedElements, Contains)
        Exact(el) == ExactPattern(el.id, numStr, prefix)
        exactMatch == FirstOf(SelectSeq(matchingElements, Exact))
    IN  IF numStr = <<>> \/ matchingElements = <<>> THEN <<>>
        ELSE IF exactMatch # <<>> THEN exactMatch
        ELSE <<matchingElements[1]>>

\* Strategy 5: an unused element of the frame that holds the title
Strategy5(cfg, unusedElements, titleText, titleFrame) ==
    LET SameFrame(el) == el.frameUrl = titleFrame
        sameFrameElements == SelectSeq(unusedElements, SameFrame)
        InFrame(t) == MapGetOrEmpty(cfg.titleFrameMap, t.text) = titleFrame
        titlesOfFrame == SelectSeq(cfg.previewVariationTitles, InFrame)
        hits == {i \in 1..Len(titlesOfFrame) : titlesOfFrame[i].text = titleText}
        frameTitleIndex == IF hits = {} THEN -1
                           ELSE (CHOOSE i \in hits : \A j \in hits : i <= j) - 1
    IN  IF titleFrame = <<>> \/ sameFrameElements = <<>> THEN <<>>
        ELSE IF frameTitleIndex >= 0 /\ Len(sameFrameElements) > frameTitleIndex
        THEN <<sameFrameElements[frameTitleIndex + 1]>>
        ELSE <<sameFrameElements[1]>>

\* Strategy 6 without the modulo: nothing when idx is past the end
Strategy6_NoWrap(unusedElements, idx) ==
    IF idx < Len(unusedElements)
    THEN <<unusedElements[idx + 1]>>
    ELSE <<>>

\* Strategy 6 that always takes the first unused element
Strategy6_First(unusedElements, idx) ==
    IF Len(unusedElements) > 0
    THEN <<unusedElements[1]>>
    ELSE <<>>

\* Strategy 6: sequential assignment by the creative index idx
Strategy6(unusedElements, idx) ==
    IF Len(unusedElements) > 0
    THEN <<unusedElements[(idx % Len(unusedElements)) + 1]>>
    ELSE <<>>

\* if (creativeElements.length === 0 ...): a later strategy runs only
\* while no earlier one has chosen an element
IfNone(creativeElements, next) == IF creativeElements = <<>> THEN next ELSE creativeElements

\* the result of a call that leaves the used-id set as it found it
ResultOf_NoMark(creativeElements, used) ==
    LET HasId(el) == el.id # <<>>
    IN  [result |-> SelectSeq(creativeElements, HasId), used |-> used]

\* finalUniqueElements and the used-id set after the call
ResultOf(creativeElements, used) ==
    LET HasId(el) == el.id # <<>>
    IN  [result |-> SelectSeq(creativeElements, HasId),
         used |-> used \cup {creativeElements[i].id : i \in 1..Len(creativeElements)}]

\* the call with the positional strategy tried before the marker-frame one
associateElementsForType_PositionalFirst(cfg, used, titleText, titleFrame, idx, containerIndex, prefix) ==
    ResultOf(
        IfNone(IfNone(IfNone(IfNone(IfNone(
            Strategy2(cfg, used, containerIndex),
            Strategy1(cfg, used, titleText, containerIndex)),
            Strategy3(cfg, used, titleText, idx, containerIndex)),
            Strategy4(UnusedOf(cfg.allElements, used), titleText, prefix)),
            Strategy5(cfg, UnusedOf(cfg.allElements, used), titleText, titleFrame)),
            Strategy6(UnusedOf(cfg.allElements, used), idx)),
        used)

\* the call: [result, used], the list returned and the used-id set after it
associateElementsForType(cfg, used, titleText, titleFrame, idx, containerIndex, prefix) ==
    ResultOf(
        IfNone(IfNone(IfNone(IfNone(IfNone(
            Strategy1(cfg, used, titleText, containerIndex),
            Strategy2(cfg, used, containerIndex)),
            Strategy3(cfg, used, titleText, idx, containerIndex)),
            Strategy4(UnusedOf(cfg.allElements, used), titleText, prefix)),
            Strategy5(cfg, UnusedOf(cfg.allElements, used), titleText, titleFrame)),
            Strategy6(UnusedOf(cfg.allElements, used), idx)),
        used)

(***************************************************************************)
(* Detector runs: one call of isPhraseSingleLineRobust on one element      *)
(***************************************************************************)
\* atoms of the element texts that are enumerated
DetAlphabet == {"MAZDA", "CX-5", " ", "\t"}

\* the ways the text nodes of an element can hold a text: at most n
\* non-empty nodes, none for the empty text
RECURSIVE SplitsOf(_, _)
SplitsOf(text, n) ==
    IF text = <<>> THEN {<<>>}
    ELSE IF n <= 1 THEN {<<text>>}
    ELSE {<<text>>} \cup
         UNION { { <<SubSeq(text, 1, k)>> \o rest :
                     rest \in SplitsOf(SubSeq(text, k + 1, Len(text)), n - 1) } :
                 k \in 1..(Len(text) - 1) }

\* the enumerated elements, as the lists of their text nodes
DetTexts == UNION { SplitsOf(text, MaxNodes) : text \in SeqsUpTo(DetAlphabet, MaxTextLen) }

\* (phrase, occurrence, caseInsensitive) of the enumerated calls; the first is
\* the call checkElementForBrokenModels makes for mazdaModels[6]
DetCalls ==
    { [phrase |-> mazdaModels[6], occurrence |-> 0, caseInsensitive |-> TRUE],
      [phrase |-> <<"MAZDA", "\t", " ", "CX-5">>, occurrence |-> 0, caseInsensitive |-> FALSE],
      [phrase |-> <<"mazda">>, occurrence |-> 1, caseInsensitive |-> TRUE],
      [phrase |-> <<"MAZDA", "MAZDA">>, occurrence |-> 1, caseInsensitive |-> FALSE],
      [phrase |-> <<" ">>, occurrence |-> 0, caseInsensitive |-> FALSE],
      [phrase |-> <<>>, occurrence |-> 0, caseInsensitive |-> FALSE] }

NoDet == [textNodes |-> <<>>, phrase |-> <<>>, occurrence |-> 0,
          caseInsensitive |-> FALSE, rectsOfRange |-> 0]
NoDetOut == [res |-> Null, nm |-> Null, range |-> Null]

NoPage == Null
NoResponse == Null
NoFallback == [state |-> "none", html |-> <<>>, dom |-> <<>>]
NoRcfg == Null
NoCall == Null
NoPeer == Null

ScanIdle ==
    /\ page = NoPage /\ frames = <<>> /\ fi = 0 /\ hlMatches = <<>>
    /\ jvxFrames = <<>> /\ fallback = NoFallback /\ response = NoResponse
    /\ url = <<>> /\ browser = "none" /\ attempt = 0 /\ waited = <<>>
    /\ navigated = FALSE
    /\ status = 0 /\ sent = 0 /\ previewVariationTitles = <<>>
    /\ peer = NoPeer /\ active = 1

ResIdle ==
    /\ rcfg = NoRcfg /\ usedElementSet = {} /\ call = NoCall
    /\ returnedIds = {} /\ dupReturn = FALSE

DetIdle == det = NoDet /\ detOut = NoDetOut

DetInit ==
    /\ pc = "det_in"
    /\ \E tn \in DetTexts, c \in DetCalls, r \in 0..MaxRects :
          det = [textNodes |-> tn, phrase |-> c.phrase, occurrence |-> c.occurrence,
                 caseInsensitive |-> c.caseInsensitive, rectsOfRange |-> r]
    /\ detOut = NoDetOut
    /\ ScanIdle
    /\ ResIdle

\* the call: res is what isPhraseSingleLineRobust returns, nm the normalized
\* text and offset map it built on the way, range what its call of
\* createRangeForPhraseRobust returned
Detect ==
    /\ pc = "det_in"
    /\ pc' = "det_out"
    /\ detOut' = [res |-> isPhraseSingleLineRobust(det.textNodes, det.phrase, det.occurrence,
                                                   det.caseInsensitive, det.rectsOfRange),
                  nm |-> buildNormalizedTextAndMap(det.textNodes),
                  range |-> createRangeForPhraseRobust(det.textNodes, det.phrase,
                                                       det.occurrence, det.caseInsensitive)]
    /\ UNCHANGED <<det, scanVars, resVars>>

DetNext == Detect

SpecDetect == DetInit /\ [][DetNext]_vars

(***************************************************************************)
(* Claims about the detector                                               *)
(***************************************************************************)
\* C2: for every phrase isPhraseSingleLineRobust finds, rectsCount is the
\* number of client rectangles of the range, singleLine is true when that
\* number is exactly 1 and false when it is 2 or more.
C2_SingleLineIffOneRect ==
    (pc = "det_out" /\ detOut.res.found) =>
        /\ detOut.res.rectsCount = det.rectsOfRange
        /\ Len(detOut.res.rects) = det.rectsOfRange
        /\ (det.rectsOfRange = 1 => detOut.res.singleLine = TRUE)
        /\ (det.rectsOfRange >= 2 => detOut.res.singleLine = FALSE)

C2_Witness ==
    /\ pc = "det_out"
    /\ detOut.res.found
    /\ det.rectsOfRange = 2
    /\ detOut.res.singleLine = FALSE

\* C8: the normalized string has no leading or trailing whitespace and no
\* two consecutive spaces, and normalizing it again, as the only text node
\* of an element or with the phrase normalization, gives it back unchanged.
C8_NormalizeIdempotent ==
    pc = "det_out" =>
        LET n == detOut.nm.normalized
        IN  /\ (n # <<>> => ~IsSpace(n[1]) /\ ~IsSpace(n[Len(n)]))
            /\ \A i \in 1..(Len(n) - 1) : ~(IsSpace(n[i]) /\ IsSpace(n[i + 1]))
            /\ \A i \in 1..Len(n) : IsSpace(n[i]) => n[i] = " "
            /\ buildNormalizedTextAndMap(<<n>>).normalized = n
            /\ targetNorm(n) = n

\* a text with leading, trailing or repeated whitespace whose normalized
\* form keeps an inner space
C8_Witness ==
    /\ pc = "det_out"
    /\ \E i \in 1..Len(detOut.nm.normalized) : detOut.nm.normalized[i] = " "
    /\ Len(WalkPositions(det.textNodes, 1)) > Len(detOut.nm.normalized)

\* the 0-based start indices of the matches of t in s, found left to right,
\* each one sought from the end of the match before; the empty string
\* matches nowhere
RECURSIVE MatchesFrom(_, _, _)
MatchesFrom(s, t, from) ==
    IF t = <<>> \/ \A i \in from..(Len(s) - Len(t)) : SubSeq(s, i + 1, i + Len(t)) # t
    THEN <<>>
    ELSE LET first == CHOOSE i \in from..(Len(s) - Len(t)) :
                        /\ SubSeq(s, i + 1, i + Len(t)) = t
                        /\ \A j \in from..(i - 1) : SubSeq(s, j + 1, j + Len(t)) # t
         IN  <<first>> \o MatchesFrom(s, t, first + Len(t))

\* the range returned is the one of the match that starts at index idx
RangeIsMatch(range, mapping, idx, len) ==
    /\ range # Null
    /\ range.startNode = mapping[idx + 1].node
    /\ range.startOffset = mapping[idx + 1].offset
    /\ range.endNode = mapping[idx + len].node
    /\ range.endOffset = mapping[idx + len].offset + 1

\* the range is that of starts[occurrence + 1], or Null when starts is shorter
SelectsOccurrence(range, mapping, starts, occurrence, len) ==
    IF Len(starts) < occurrence + 1
    THEN range = Null
    ELSE RangeIsMatch(range, mapping, starts[occurrence + 1], len)

\* C26: createRangeForPhraseRobust selects the occurrence-th (0-indexed)
\* match of the whitespace-collapsed phrase in the normalized string,
\* case-folded when requested, and returns not found exactly when the
\* normalized string has fewer than occurrence+1 matches of the phrase
\* (matches counted left to right, each after the end of the one before).
C26_SelectsOccurrence ==
    pc = "det_out" =>
        SelectsOccurrence(detOut.range, detOut.nm.mapping,
                          MatchesFrom(CaseOf(detOut.nm.normalized, det.caseInsensitive),
                                      CaseOf(targetNorm(det.phrase), det.caseInsensitive), 0),
                          det.occurrence,
                          Len(targetNorm(det.phrase)))

\* a call for the second match that found it, past the first
C26_Witness ==
    /\ pc = "det_out"
    /\ det.occurrence = 1
    /\ detOut.range # Null
    /\ detOut.res.found
    /\ <<detOut.range.startNode, detOut.range.startOffset>> # <<1, 0>>

\* the character of the element at a (node, offset) of the offset map
CharAt(textNodes, m) == textNodes[m.node][m.offset + 1]

\* the place of a (node, offset) in the order the walk visits the characters
WalkIndex(positions, m) == CHOOSE k \in 1..Len(positions) : positions[k] = m

\* entry i of the map names the character normalized[i] stands for
MapsCharacter(textNodes, positions, normalized, mapping, i) ==
    /\ \E k \in 1..Len(positions) : positions[k] = mapping[i]
    /\ IF IsSpace(normalized[i])
       THEN /\ IsSpace(CharAt(textNodes, mapping[i]))
            /\ WalkIndex(positions, mapping[i]) > 1
            /\ ~IsSpace(CharAt(textNodes, positions[WalkIndex(positions, mapping[i]) - 1]))
       ELSE CharAt(textNodes, mapping[i]) = normalized[i]

\* between two neighbouring entries of the map the walk visits whitespace only
RunBetween(textNodes, positions, mapping, i) ==
    /\ WalkIndex(positions, mapping[i]) < WalkIndex(positions, mapping[i + 1])
    /\ \A k \in (WalkIndex(positions, mapping[i]) + 1)..(WalkIndex(positions, mapping[i + 1]) - 1) :
          IsSpace(CharAt(textNodes, positions[k]))

\* C27: the offset map is parallel to the normalized string for every
\* input: mapping has exactly one entry per normalized character, each
\* non-space normalized character equals the original character at its
\* mapped (textNode, offset), and each normalized space maps to the first
\* whitespace character of the run it replaces.
C27_MapParallel ==
    pc = "det_out" =>
        /\ Len(detOut.nm.mapping) = Len(detOut.nm.normalized)
        /\ \A i \in 1..Len(detOut.nm.normalized) :
              MapsCharacter(det.textNodes, WalkPositions(det.textNodes, 1),
                            detOut.nm.normalized, detOut.nm.mapping, i)
        /\ \A i \in 1..(Len(detOut.nm.normalized) - 1) :
              RunBetween(det.textNodes, WalkPositions(det.textNodes, 1), detOut.nm.mapping, i)

\* a whitespace run of two characters that crosses two text nodes became
\* one space mapped to the last character of the first node
C27_Witness ==
    /\ pc = "det_out"
    /\ Len(det.textNodes) = 2
    /\ \E i \in 1..Len(detOut.nm.normalized) :
          /\ detOut.nm.normalized[i] = " "
          /\ detOut.nm.mapping[i] = [node |-> 1, offset |-> Len(det.textNodes[1]) - 1]
          /\ IsSpace(det.textNodes[2][1])
    /\ Len(detOut.nm.mapping) = Len(detOut.nm.normalized)

(***************************************************************************)
(* The /api/count handler around the scan: launch, navigation, the titles  *)
(* of the preview containers, browser.close() and the error response       *)
(***************************************************************************)
maxRetries == 3

\* the index of the first atom of s at or after k that is not whitespace
RECURSIVE AfterSpaces(_, _)
AfterSpaces(s, k) ==
    IF k <= Len(s) /\ IsSpace(s[k]) THEN AfterSpaces(s, k + 1) ELSE k

\* s[k] is the word w, case-insensitively, and whitespace follows up to n
WordThenSpaces(s, k, w, n) ==
    k <= Len(s) /\ LowerAtom(s[k]) = w /\ n > k + 1

\* text.replace(/^Preview\s+of\s+variation\s*/i, ''), a, b the ends of the
\* whitespace after "Preview" and after "of"
ReplacePrefixAt(text, a, b) ==
    IF /\ WordThenSpaces(text, 1, "preview", a)
       /\ WordThenSpaces(text, a, "of", b)
       /\ b <= Len(text) /\ LowerAtom(text[b]) = "variation"
    THEN SliceFrom(text, AfterSpaces(text, b + 1) - 1)
    ELSE text

ReplacePreviewPrefix(text) ==
    ReplacePrefixAt(text, AfterSpaces(text, 2),
                    AfterSpaces(text, AfterSpaces(text, 2) + 1))

\* the title object pushed for a container, none when both texts are empty
TitleEntry(text, cleanedText, containerIndex, frameUrl) ==
    IF cleanedText # <<>> \/ text # <<>>
    THEN << [text |-> IF cleanedText # <<>> THEN cleanedText ELSE text,
             originalText |-> text,
             index |-> containerIndex,
             containerIndex |-> containerIndex,
             frameUrl |-> frameUrl] >>
    ELSE <<>>

\* the forEach over the containers of one frame, from containers[k] on;
\* containerIndex is the position of the container in its own document
RECURSIVE FrameTitlesFrom(_, _, _)
FrameTitlesFrom(containers, k, frameUrl) ==
    IF k > Len(containers) THEN <<>>
    ELSE (IF containers[k].titleEl
          THEN TitleEntry(trim(containers[k].text),
                          trim(ReplacePreviewPrefix(trim(containers[k].text))),
                          k - 1, frameUrl)
          ELSE <<>>)
         \o FrameTitlesFrom(containers, k + 1, frameUrl)

\* frameTitles.forEach: title.index = previewVariationTitles.length; push
RECURSIVE PushTitles(_, _, _)
PushTitles(titles, frameTitles, k) ==
    IF k > Len(frameTitles) THEN titles
    ELSE PushTitles(Append(titles, [frameTitles[k] EXCEPT !.index = Len(titles)]),
                    frameTitles, k + 1)

\* the loop over page.frames() from frames[i] on; a frame whose evaluate
\* throws is skipped
RECURSIVE CollectTitles(_, _, _)
CollectTitles(fs, i, titles) ==
    IF i > Len(fs) THEN titles
    ELSE CollectTitles(fs, i + 1,
                       IF fs[i].access = "ok"
                       THEN PushTitles(titles, FrameTitlesFrom(fs[i].containers, 1, fs[i].url), 1)
                       ELSE titles)

\* the message of the error as it is, without the default or the replacement
errorMessageOf_Raw(message) == message

\* err.message || 'Unknown error', then the replacement by a friendlier text
errorMessageOf(message) ==
    IF message = <<>> THEN <<"Unknown error">>
    ELSE IF includes(message, <<"ECONNRESET">>) THEN <<"Connection was reset by the server.">>
    ELSE IF includes(message, <<"ECONNREFUSED">>) THEN <<"Connection refused.">>
    ELSE IF includes(message, <<"ETIMEDOUT">>) \/ includes(message, <<"timeout">>)
         THEN <<"Request timed out.">>
    ELSE IF includes(message, <<"net::ERR">>) THEN <<"Network error: ">> \o message
    ELSE IF includes(message, <<"Protocol error">>) \/ includes(message, <<"Target closed">>)
         THEN <<"Browser connection lost.">>
    ELSE IF includes(message, <<"Navigation failed">>)
         THEN <<"Navigation failed: ">> \o message
    ELSE message

\* x || 'Unknown error'
OrUnknownError(message) == IF message = <<>> THEN <<"Unknown error">> ELSE message

(***************************************************************************)
(* Scan runs: the handler from the request to res.json                     *)
(***************************************************************************)
MaxFrames == 2     \* frames returned by page.frames()

JA == <<"jvxBase_", "a">>
JB == <<"jvxBase_", "b">>
UrlBlank == <<"about:blank">>
UrlA == <<"http://h/?f=", "jvxBase_", "a">>
LabelA == <<"Char_Limit-", "1", "0">>
LabelB == <<"B">>

\* the documents of the enumerated frames: elements in document order, and
\* the title found inside the frame
\* a preview container with a .previewVariationTitle of the given text,
\* and one without
Container(text) == [titleEl |-> TRUE, text |-> text]
ContainerNoTitle == [titleEl |-> FALSE, text |-> <<>>]

DocEmpty == [elements |-> <<>>, title |-> <<>>, containers |-> <<>>]
DocUntitled == [elements |-> <<ElBroken, ElAbsent>>, title |-> <<>>,
                containers |-> <<ContainerNoTitle, Container(<<"\n", " ">>)>>]
DocTitled == [elements |-> <<ElSingle>>, title |-> LabelA,
              containers |-> <<Container(<<" ", "Preview", " ", "\t", "of", " ", "variation",
                                           " ">> \o LabelA),
                               Container(LabelA)>>]
DocPlaceholder == [elements |-> <<ElZero, ElTwo>>, title |-> NA,
                   containers |-> <<Container(NA)>>]

\* a frame whose url(), name() and evaluate() succeed
FrameOf(frameUrl, name, d) ==
    [url |-> frameUrl, name |-> name, access |-> "ok", elements |-> d.elements, title |-> d.title,
     containers |-> d.containers]

\* the enumerated frames; the last two are a frame whose evaluate() throws
\* and a frame whose url() throws
FramePool ==
    { FrameOf(UrlBlank, <<>>, DocUntitled),
      FrameOf(UrlBlank, <<>>, DocTitled),
      FrameOf(UrlBlank, <<>>, DocPlaceholder),
      FrameOf(UrlA, <<>>, DocTitled),
      FrameOf(UrlA, <<>>, DocEmpty),
      FrameOf(UrlBlank, JB, DocUntitled),
      FrameOf(UrlBlank, JB, DocEmpty),
      FrameOf(UrlBlank, JB, DocPlaceholder),
      [url |-> UrlBlank, name |-> JB, access |-> "evalError", elements |-> <<>>,
       title |-> <<>>, containers |-> <<>>],
      [url |-> UrlBlank, name |-> <<>>, access |-> "urlError", elements |-> <<>>,
       title |-> <<>>, containers |-> <<>>] }

IframeA == [id |-> JA, src |-> UrlA, name |-> <<>>]
IframeB == [id |-> JB, src |-> <<>>, name |-> JB]

\* the main document: its marker iframes and the (marker id, title) pairs of
\* its preview containers
SameTitles == << [jvxBaseId |-> JA, creativeVariation |-> LabelA],
                 [jvxBaseId |-> JB, creativeVariation |-> LabelA] >>
TwoTitles == << [jvxBaseId |-> JA, creativeVariation |-> LabelA],
                [jvxBaseId |-> JB, creativeVariation |-> LabelB] >>

PagePool ==
    { [iframes |-> <<>>, variations |-> <<>>],
      [iframes |-> <<>>, variations |-> TwoTitles],
      [iframes |-> <<IframeA, IframeB>>, variations |-> SameTitles],
      [iframes |-> <<IframeA, IframeB>>, variations |-> TwoTitles] }

\* the quoted values after "id=" in the raw HTML read by the fallback
HtmlPool ==
    { <<>>,
      << JB, <<"app">>, <<"jvxBase_">>, JA, JB >> }

\* the url of a request that has one
UrlPage == <<"http://h/">>

\* the messages of the errors that launch, newPage and goto throw
ErrCauses == { <<>>, <<"net::ERR">>, <<"boom">> }

\* the page and its frames are what the browser will show once launched and
\* navigated; nothing of the request has happened yet
ScanInit ==
    /\ pc = "request"
    /\ page \in PagePool
    /\ frames \in UNION {[1..n -> FramePool] : n \in 1..MaxFrames}
    /\ fi = 1
    /\ hlMatches = <<>>
    /\ jvxFrames = <<>>
    /\ fallback = NoFallback
    /\ response = NoResponse
    /\ url = <<>> /\ browser = "none" /\ attempt = 0 /\ waited = <<>>
    /\ navigated = FALSE
    /\ status = 0 /\ sent = 0 /\ previewVariationTitles = <<>>
    /\ peer = NoPeer /\ active = 1
    /\ DetIdle
    /\ ResIdle

\* the catch (err) of the handler without its browser.close()
Catch_NoClose(message) ==
    /\ browser' = browser
    /\ response' = [ok |-> FALSE, error |-> errorMessageOf(message)]
    /\ status' = 500
    /\ sent' = sent + 1
    /\ pc' = "failed"

\* the catch (err) of the handler: close the browser if there is one (a
\* rejected close is logged and ignored), then res.status(500).json
Catch(message) ==
    /\ \E closes \in BOOLEAN :
          browser' = IF browser = "none" THEN "none"
                     ELSE IF closes THEN "closed" ELSE "closeFailed"
    /\ response' = [ok |-> FALSE, error |-> errorMessageOf(message)]
    /\ status' = 500
    /\ sent' = sent + 1
    /\ pc' = "failed"

\* the request arrives; if (!url) return res.status(400).json(...)
Receive ==
    /\ pc = "request"
    /\ \E u \in {<<>>, UrlPage} :
          /\ url' = u
          /\ IF u = <<>>
             THEN /\ response' = [ok |-> FALSE, error |-> <<"Missing ?url=">>]
                  /\ status' = 400
                  /\ sent' = sent + 1
                  /\ pc' = "rejected"
             ELSE /\ pc' = "launch"
                  /\ UNCHANGED <<response, status, sent>>
    /\ attempt' = IF url' = <<>> THEN attempt ELSE 1
    /\ UNCHANGED <<page, frames, fi, hlMatches, jvxFrames, fallback, browser, waited,
                   navigated, previewVariationTitles, detVars, resVars, pairVars>>

\* await new Promise(r => setTimeout(r, 1000 * attempt)) of the launch loop
launchDelay(n) == 1000 * n

\* one attempt of the launch loop, over all the launch options: some option
\* launches the browser, or all fail and the loop waits and goes on, or the
\* last option of the last attempt throws the error built from its cause
Launch ==
    /\ pc = "launch"
    /\ \/ /\ browser' = "open"
          /\ pc' = "newPage"
          /\ attempt' = 0
          /\ waited' = <<>>
          /\ UNCHANGED <<response, status, sent>>
       \/ /\ attempt < maxRetries
          /\ attempt' = attempt + 1
          /\ waited' = Append(waited, [ms |-> launchDelay(attempt), connection |-> FALSE])
          /\ UNCHANGED <<pc, browser, response, status, sent>>
       \/ /\ attempt = maxRetries
          /\ attempt' = 0
          /\ waited' = <<>>
          /\ \E cause \in ErrCauses :
                Catch(<<"Failed to launch browser after 3 attempts. Original error: ">>
                         \o (IF cause = <<>> THEN <<"Error">> ELSE cause))
    /\ UNCHANGED <<page, frames, fi, hlMatches, jvxFrames, fallback, url,
                   navigated, previewVariationTitles, detVars, resVars, pairVars>>

\* page = await browser.newPage(), which may throw
NewPage ==
    /\ pc = "newPage"
    /\ \/ /\ pc' = "navigate"
          /\ attempt' = 1
          /\ UNCHANGED <<browser, response, status, sent>>
       \/ /\ \E cause \in ErrCauses : Catch(cause)
          /\ attempt' = attempt
    /\ UNCHANGED <<page, frames, fi, hlMatches, jvxFrames, fallback, url, waited,
                   navigated, previewVariationTitles, detVars, resVars, pairVars>>

\* the errors the navigation loop treats as connection errors
isConnectionError(errorMsg) ==
    \/ includes(errorMsg, <<"ECONNRESET">>)
    \/ includes(errorMsg, <<"ECONNREFUSED">>)
    \/ includes(errorMsg, <<"ETIMEDOUT">>)
    \/ includes(errorMsg, <<"net::ERR">>)

\* the catch (navError) with 2000 ms after every error
navigationDelay_Constant(errorMsg, n) == 2000

\* the delay the catch (navError) waits before the next attempt: attempt *
\* 2000 ms after a connection error, 2000 ms after any other error
navigationDelay(errorMsg, n) ==
    IF isConnectionError(errorMsg) THEN n * 2000 ELSE 2000

\* what the catch (navError) of attempt n waited, and for which class of error
Waited(errorMsg, n) ==
    [ms |-> navigationDelay(errorMsg, n), connection |-> isConnectionError(errorMsg)]

\* the navigation loop without the settle delay after it
Navigate_NoSettle ==
    /\ pc = "navigate"
    /\ \/ /\ pc' = "titles"
          /\ attempt' = 0
          /\ waited' = <<>>
          /\ navigated' = TRUE
          /\ UNCHANGED <<browser, response, status, sent>>
       \/ /\ attempt < maxRetries
          /\ attempt' = attempt + 1
          /\ \E cause \in ErrCauses :
                waited' = Append(waited, Waited(IF cause = <<>> THEN <<"Error">> ELSE cause,
                                                attempt))
          /\ UNCHANGED <<pc, navigated, browser, response, status, sent>>
       \/ /\ attempt = maxRetries
          /\ attempt' = 0
          /\ waited' = <<>>
          /\ navigated' = navigated
          /\ \E cause \in ErrCauses :
                Catch(<<"Failed to navigate to URL after 3 attempts: ">>
                      \o OrUnknownError(cause))
    /\ UNCHANGED <<page, frames, fi, hlMatches, jvxFrames, fallback, url,
                   previewVariationTitles, detVars, resVars, pairVars>>

\* one attempt of the navigation loop: page.goto succeeds and the loop is
\* left, or throws and is retried after the delay, or throws for the last
\* time with the message that lastError keeps for the error thrown after
\* the loop
Navigate ==
    /\ pc = "navigate"
    /\ \/ /\ pc' = "settle"
          /\ attempt' = 0
          /\ waited' = <<>>
          /\ navigated' = TRUE
          /\ UNCHANGED <<browser, response, status, sent>>
       \/ /\ attempt < maxRetries
          /\ attempt' = attempt + 1
          /\ \E cause \in ErrCauses :
                waited' = Append(waited, Waited(IF cause = <<>> THEN <<"Error">> ELSE cause,
                                                attempt))
          /\ UNCHANGED <<pc, navigated, browser, response, status, sent>>
       \/ /\ attempt = maxRetries
          /\ attempt' = 0
          /\ waited' = <<>>
          /\ navigated' = navigated
          /\ \E cause \in ErrCauses :
                Catch(<<"Failed to navigate to URL after 3 attempts: ">>
                      \o OrUnknownError(cause))
    /\ UNCHANGED <<page, frames, fi, hlMatches, jvxFrames, fallback, url,
                   previewVariationTitles, detVars, resVars, pairVars>>

\* await new Promise(r => setTimeout(r, 6000)): the settle delay after a
\* successful navigation
Settle ==
    /\ pc = "settle"
    /\ pc' = "titles"
    /\ UNCHANGED <<page, frames, fi, hlMatches, jvxFrames, fallback, response, reqVars,
                   previewVariationTitles, detVars, resVars, pairVars>>

\* 0. the titles of the preview containers of every frame
Titles ==
    /\ pc = "titles"
    /\ previewVariationTitles' = CollectTitles(frames, 1, <<>>)
    /\ pc' = "query"
    /\ UNCHANGED <<page, frames, fi, hlMatches, jvxFrames, fallback, response, reqVars,
                   detVars, resVars, pairVars>>

\* A. the DOM query for marker iframes; it yields [] when the evaluation throws
QueryMarkers ==
    /\ pc = "query"
    /\ \E throws \in BOOLEAN :
          jvxFrames' = IF throws THEN <<>> ELSE DomMarkerFrames(page)
    /\ fallback' = [fallback EXCEPT !.dom = jvxFrames']
    /\ pc' = "scan"
    /\ UNCHANGED <<page, frames, fi, hlMatches, response, reqVars, previewVariationTitles,
                   detVars, resVars, pairVars>>

\* B. one iteration of the loop over page.frames()
ScanStep ==
    /\ pc = "scan"
    /\ fi <= Len(frames)
    /\ hlMatches' = ScanFrame(hlMatches, page, frames[fi])
    /\ fi' = fi + 1
    /\ UNCHANGED <<pc, page, frames, jvxFrames, fallback, response, reqVars,
                   previewVariationTitles, detVars, resVars, pairVars>>

\* 4. the regex fallback, after the last frame; page.content() may throw
RegexFallback ==
    /\ pc = "scan"
    /\ fi > Len(frames)
    /\ IF Len(jvxFrames) = 0
       THEN \/ \E html \in HtmlPool :
                  /\ jvxFrames' = FallbackFrames(html)
                  /\ fallback' = [fallback EXCEPT !.state = "ran", !.html = html]
            \/ \E html \in HtmlPool :
                  /\ jvxFrames' = jvxFrames
                  /\ fallback' = [fallback EXCEPT !.state = "threw", !.html = html]
       ELSE /\ jvxFrames' = jvxFrames
            /\ fallback' = [fallback EXCEPT !.state = "skipped"]
    /\ pc' = "close"
    /\ UNCHANGED <<page, frames, fi, hlMatches, response, reqVars, previewVariationTitles,
                   detVars, resVars, pairVars>>

\* try { await browser.close() } catch (closeError) { log }: a rejected
\* close leaves the session as it is and the handler goes on
CloseBrowser ==
    /\ pc = "close"
    /\ \E closes \in BOOLEAN : browser' = IF closes THEN "closed" ELSE "closeFailed"
    /\ pc' = "respond"
    /\ UNCHANGED <<page, frames, fi, hlMatches, jvxFrames, fallback, response, url, attempt,
                   waited, navigated, status, sent, previewVariationTitles, detVars, resVars, pairVars>>

\* 5. filter, flatten, res.json(response)
Respond ==
    /\ pc = "respond"
    /\ response' = BuildResponse(hlMatches, jvxFrames)
    /\ status' = 200
    /\ sent' = sent + 1
    /\ pc' = "done"
    /\ UNCHANGED <<page, frames, fi, hlMatches, jvxFrames, fallback, url, browser, attempt, waited,
                   navigated, previewVariationTitles, detVars, resVars, pairVars>>

ScanNext ==
    \/ Receive \/ Launch \/ NewPage \/ Navigate \/ Settle \/ Titles
    \/ QueryMarkers \/ ScanStep \/ RegexFallback \/ CloseBrowser \/ Respond

SpecScan == ScanInit /\ [][ScanNext]_vars

(***************************************************************************)
(* Two requests: Node runs one handler at a time and may resume the other  *)
(* handler whenever the running one reaches an await.  The variables hold  *)
(* the request whose handler runs, peer the locals of the suspended one.   *)
(***************************************************************************)
\* the two requests of the enumerated runs: the page each browser shows
PairRequests ==
    { [page |-> [iframes |-> <<IframeA, IframeB>>, variations |-> SameTitles],
       frames |-> <<FrameOf(UrlA, <<>>, DocTitled), FrameOf(UrlBlank, JB, DocUntitled)>>],
      [page |-> [iframes |-> <<>>, variations |-> <<>>],
       frames |-> <<FrameOf(UrlBlank, <<>>, DocPlaceholder)>>] }

\* the locals of the running handler, as they are kept while it is suspended
Suspended ==
    [pc |-> pc, url |-> url, browser |-> browser, attempt |-> attempt, waited |-> waited,
     navigated |-> navigated, status |-> status, sent |-> sent, page |-> page,
     frames |-> frames, fi |-> fi, hlMatches |-> hlMatches, jvxFrames |-> jvxFrames,
     fallback |-> fallback, response |-> response,
     previewVariationTitles |-> previewVariationTitles]

\* a request that has just arrived, for the page and frames of rq
Arrived(rq) ==
    [pc |-> "request", url |-> <<>>, browser |-> "none", attempt |-> 0, waited |-> <<>>,
     navigated |-> FALSE, status |-> 0, sent |-> 0, page |-> rq.page,
     frames |-> rq.frames, fi |-> 1, hlMatches |-> <<>>, jvxFrames |-> <<>>,
     fallback |-> NoFallback, response |-> NoResponse,
     previewVariationTitles |-> <<>>]

PairInit ==
    /\ pc = "request"
    /\ \E rq \in PairRequests : page = rq.page /\ frames = rq.frames
    /\ fi = 1
    /\ hlMatches = <<>>
    /\ jvxFrames = <<>>
    /\ fallback = NoFallback
    /\ response = NoResponse
    /\ url = <<>> /\ browser = "none" /\ attempt = 0 /\ waited = <<>>
    /\ navigated = FALSE
    /\ status = 0 /\ sent = 0 /\ previewVariationTitles = <<>>
    /\ \E rq \in PairRequests : peer = Arrived(rq)
    /\ active = 1
    /\ DetIdle
    /\ ResIdle

\* a binding declared at module level: the resumed handler finds the value
\* the other handler left
ModuleScoped(own, other) == other

\* a binding declared with let/const inside the handler: the resumed handler
\* finds its own value, whatever the other handler did to its own
HandlerScoped(own, other) == own

\* the running handler is at an await and the event loop resumes the other
Switch ==
    /\ active' = 3 - active
    /\ peer' = Suspended
    /\ pc' = peer.pc
    /\ url' = peer.url
    /\ status' = peer.status
    /\ sent' = peer.sent
    /\ page' = peer.page
    /\ frames' = peer.frames
    /\ fallback' = peer.fallback
    /\ navigated' = peer.navigated
    /\ browser' = HandlerScoped(peer.browser, browser)
    /\ attempt' = HandlerScoped(peer.attempt, attempt)
    /\ waited' = HandlerScoped(peer.waited, waited)
    /\ fi' = HandlerScoped(peer.fi, fi)
    /\ hlMatches' = HandlerScoped(peer.hlMatches, hlMatches)
    /\ jvxFrames' = HandlerScoped(peer.jvxFrames, jvxFrames)
    /\ previewVariationTitles' = HandlerScoped(peer.previewVariationTitles,
                                               previewVariationTitles)
    /\ response' = HandlerScoped(peer.response, response)
    /\ UNCHANGED <<detVars, resVars>>

PairNext == ScanNext \/ Switch

SpecPair == PairInit /\ [][PairNext]_vars

(***************************************************************************)
(* Claims about the frame scan, the filter and the response                *)
(***************************************************************************)
\* the label the scan resolves for a frame it can read
FrameLabel(f) ==
    creativeVariationOf(creativeVariationMap(page), f, MatchJvxBaseId(page.iframes, f.url, f.name))

\* the frame is a marker frame or has elements, so the scan records it
FrameRecorded(f) ==
    /\ f.access # "urlError"
    /\ \/ f.name # <<>> /\ f.name[1] = "jvxBase_"
       \/ MatchJvxBaseId(page.iframes, f.url, f.name) # <<>>
       \/ f.access = "ok" /\ \E k \in 1..Len(f.elements) :
              \E c \in 1..8 : startsWith(f.elements[k].id, CategoryPrefix(c))

ValidLabel(label) == label # <<>> /\ label # NA

SomeList(rec) == \E c \in 1..8 : Len(rec[CategoryFields[c]]) > 0

\* the elements of category c found in the frames from k on that resolve to label, in scan order
RECURSIVE ElementsOfLabel(_, _, _)
ElementsOfLabel(label, c, k) ==
    IF k > Len(frames) THEN <<>>
    ELSE (IF frames[k].access = "ok" /\ FrameLabel(frames[k]) = label
          THEN processElements(SelectByPrefix(frames[k].elements, CategoryPrefix(c)))
          ELSE <<>>)
         \o ElementsOfLabel(label, c, k + 1)

\* C3: the returned hlMatches holds at most one record per valid creative
\* label, and the element lists of all frames that resolve to one label are
\* concatenated, category by category, into that single record.
C3_OneRecordPerLabel ==
    pc = "done" =>
        LET out == response.hlMatches
        IN  /\ \A i, j \in 1..Len(out) :
                  (i # j /\ ValidLabel(out[i].creativeVariation))
                      => out[i].creativeVariation # out[j].creativeVariation
            /\ \A k \in 1..Len(frames) :
                  (FrameRecorded(frames[k]) /\ ValidLabel(FrameLabel(frames[k]))) =>
                      \E i \in 1..Len(out) :
                          /\ out[i].creativeVariation = FrameLabel(frames[k])
                          /\ \A c \in 1..8 :
                                out[i][CategoryFields[c]] =
                                    ElementsOfLabel(FrameLabel(frames[k]), c, 1)

\* two frames with elements resolve to the same valid label
C3_Witness ==
    /\ pc = "done"
    /\ \E k1, k2 \in 1..Len(frames) :
          /\ k1 < k2
          /\ frames[k1].access = "ok" /\ frames[k2].access = "ok"
          /\ frames[k1].elements # <<>> /\ frames[k2].elements # <<>>
          /\ ValidLabel(FrameLabel(frames[k1]))
          /\ FrameLabel(frames[k1]) = FrameLabel(frames[k2])
          /\ \E i \in 1..Len(response.hlMatches) :
                /\ response.hlMatches[i].creativeVariation = FrameLabel(frames[k1])
                /\ Len(allElementArrays(response.hlMatches[i])) >= 2

\* the whole scan and filter on a list of frames
RECURSIVE ScanAll(_, _, _)
ScanAll(hl, fs, k) ==
    IF k > Len(fs) THEN hl ELSE ScanAll(ScanFrame(hl, page, fs[k]), fs, k + 1)

Reverse(q) == [i \in 1..Len(q) |-> q[Len(q) + 1 - i]]

\* a list without its order
BagOfList(l) ==
    LET elems == {l[i] : i \in 1..Len(l)}
    IN  {<<e, Cardinality({i \in 1..Len(l) : l[i] = e})>> : e \in elems}

\* a record with its lists as multisets
RecordWithFrame(rec) ==
    [creativeVariation |-> rec.creativeVariation,
     frameUrl |-> rec.frameUrl, frameName |-> rec.frameName,
     lists |-> [c \in 1..8 |-> BagOfList(rec[CategoryFields[c]])]]

RecordWithoutFrame(rec) ==
    [creativeVariation |-> rec.creativeVariation,
     lists |-> [c \in 1..8 |-> BagOfList(rec[CategoryFields[c]])]]

\* the label is carried by two or more recorded frames
MergedLabel(label) ==
    /\ ValidLabel(label)
    /\ Cardinality({k \in 1..Len(frames) :
            FrameRecorded(frames[k]) /\ FrameLabel(frames[k]) = label}) >= 2

\* C4 as stated: scanning the frames in the opposite order yields the same
\* set of records, with the same labels, the same source frame fields and
\* the same multiset of elements per category.
C4_CommutativeWithFrameFields ==
    pc = "done" =>
        LET other == validHlMatchesOf(ScanAll(<<>>, Reverse(frames), 1))
            out == response.hlMatches
        IN  /\ Len(out) = Len(other)
            /\ {RecordWithFrame(out[i]) : i \in 1..Len(out)}
                   = {RecordWithFrame(other[i]) : i \in 1..Len(other)}

\* C4 amended: the opposite order yields the same labels with the same
\* multiset of elements per category, and the same source frame fields for
\* every record that is not merged from several frames.
C4_CommutativeUpToFirstFrame ==
    pc = "done" =>
        LET other == validHlMatchesOf(ScanAll(<<>>, Reverse(frames), 1))
            out == response.hlMatches
            View(rec) == IF MergedLabel(rec.creativeVariation)
                         THEN [RecordWithFrame(rec) EXCEPT !.frameUrl = <<>>, !.frameName = <<>>]
                         ELSE RecordWithFrame(rec)
        IN  /\ Len(out) = Len(other)
            /\ {View(out[i]) : i \in 1..Len(out)} = {View(other[i]) : i \in 1..Len(other)}
            /\ \A i \in 1..Len(out) :
                  MergedLabel(out[i].creativeVariation) =>
                      \E k \in 1..Len(frames) :
                          /\ FrameRecorded(frames[k])
                          /\ FrameLabel(frames[k]) = out[i].creativeVariation
                          /\ \A j \in 1..(k - 1) :
                                ~(FrameRecorded(frames[j])
                                  /\ FrameLabel(frames[j]) = out[i].creativeVariation)
                          /\ out[i].frameUrl = frames[k].url
                          /\ out[i].frameName = frames[k].name

\* two recorded frames with different names share a label and are merged
C4_Witness ==
    /\ pc = "done"
    /\ \E k1, k2 \in 1..Len(frames) :
          /\ k1 # k2
          /\ FrameRecorded(frames[k1]) /\ FrameRecorded(frames[k2])
          /\ MergedLabel(FrameLabel(frames[k1]))
          /\ FrameLabel(frames[k1]) = FrameLabel(frames[k2])
          /\ frames[k1].name # frames[k2].name
          /\ frames[k1].elements # <<>> /\ frames[k2].elements # <<>>

\* C5: a record whose label is empty, 'N/A' or whitespace-only is in the
\* returned hlMatches if and only if one of its eight lists is non-empty.
C5_PlaceholderKeptIffElements ==
    pc = "done" =>
        \A i \in 1..Len(hlMatches) :
            LET rec == hlMatches[i]
                label == rec.creativeVariation
            IN  (label = <<>> \/ label = NA \/ \A n \in 1..Len(label) : IsSpace(label[n])) =>
                    ((\E j \in 1..Len(response.hlMatches) : response.hlMatches[j] = rec)
                        <=> SomeList(rec))

\* one placeholder record was dropped and another was kept
C5_Witness ==
    /\ pc = "done"
    /\ \E i, j \in 1..Len(hlMatches) :
          /\ hlMatches[i].creativeVariation = NA /\ ~SomeList(hlMatches[i])
          /\ hlMatches[j].creativeVariation = NA /\ SomeList(hlMatches[j])
          /\ \E n \in 1..Len(response.hlMatches) : response.hlMatches[n] = hlMatches[j]

\* the phrase occurs in the normalized text of the element, compared the way
\* the collector asks for, without regard to case
PhraseOccurs(phrase, textNodes) ==
    LET text == toLowerCase(buildNormalizedTextAndMap(textNodes).normalized)
        p == toLowerCase(phrase)
    IN  \E i \in 0..Len(text) :
            /\ i + Len(p) <= Len(text)
            /\ \A n \in 1..Len(p) : text[i + n] = p[n]

\* every element record of a list of hlMatches records
ElementRecordsOf(recs) ==
    UNION { { recs[i][CategoryFields[c]][k] : k \in 1..Len(recs[i][CategoryFields[c]]) } :
            i \in 1..Len(recs), c \in 1..8 }

ModelsOf(statuses) == {statuses[n].model : n \in 1..Len(statuses)}

\* C6: a target phrase that does not occur in the normalized text of an
\* element is reported found=false, and is listed for that element neither
\* in the element's brokenModels or allModelStatuses nor in the flattened
\* brokenModels or allModelStatuses of the response.
C6_AbsentPhraseNeverReported ==
    /\ (pc = "scan" /\ fi > 1) =>
          \A n \in 1..Len(frames[fi - 1].elements) : \A m \in 1..Len(mazdaModels) :
              LET el == frames[fi - 1].elements[n]
              IN  ~PhraseOccurs(mazdaModels[m], el.textNodes) =>
                      ~isPhraseSingleLineRobust(el.textNodes, mazdaModels[m], 0, TRUE,
                                                el.rectsOf[m]).found
    /\ \A e \in ElementRecordsOf(hlMatches) :
          \A p \in ModelsOf(e.brokenModels) \cup ModelsOf(e.allModelStatuses) :
              PhraseOccurs(p, e.outerHTML.textNodes)
    /\ pc = "done" =>
          /\ \A e \in ElementRecordsOf(response.hlMatches) :
                \A p \in ModelsOf(e.brokenModels) \cup ModelsOf(e.allModelStatuses) :
                    PhraseOccurs(p, e.outerHTML.textNodes)
          /\ \A n \in 1..Len(response.brokenModels) :
                \A p \in ModelsOf(response.brokenModels[n].brokenModels) :
                    PhraseOccurs(p, response.brokenModels[n].outerHTML.textNodes)
          /\ \A n \in 1..Len(response.allModelStatuses) :
                \A p \in ModelsOf(response.allModelStatuses[n].modelStatuses) :
                    PhraseOccurs(p, response.allModelStatuses[n].outerHTML.textNodes)

\* the response holds an element in which no target phrase occurs, next to
\* one in which a phrase occurs
C6_Witness ==
    /\ pc = "done"
    /\ \E e \in ElementRecordsOf(response.hlMatches) :
          /\ \A m \in 1..Len(mazdaModels) : ~PhraseOccurs(mazdaModels[m], e.outerHTML.textNodes)
          /\ e.allModelStatuses = <<>>
    /\ Len(response.brokenModels) > 0

\* the ids the marker pattern matches in the raw HTML, from position k on
RECURSIVE MarkerIdsFrom(_, _)
MarkerIdsFrom(html, k) ==
    IF k > Len(html) THEN <<>>
    ELSE (IF Len(html[k]) >= 2 /\ html[k][1] = "jvxBase_"
          THEN << [id |-> html[k], src |-> <<>>] >> ELSE <<>>)
         \o MarkerIdsFrom(html, k + 1)

\* C7 as stated: when the DOM query finds no marker iframe, frames is the
\* list of every id the marker pattern matches in the raw HTML, each as
\* {id, src: ''}; otherwise the regex scan is not run and frames is the DOM
\* result; count is the length of frames.
C7_FallbackAlwaysLists ==
    pc = "done" =>
        /\ Len(fallback.dom) = 0 => response.frames = MarkerIdsFrom(fallback.html, 1)
        /\ Len(fallback.dom) > 0 =>
              fallback.state = "skipped" /\ response.frames = fallback.dom
        /\ response.count = Len(response.frames)

\* C7 amended: when the DOM query yields no marker iframe and the raw HTML
\* is read, frames is the list of every id the marker pattern matches in
\* it, each as {id, src: ''}; when reading the raw HTML fails, frames stays
\* empty; when the DOM query finds a marker iframe the regex scan is not
\* run and frames is the DOM result; count is always the length of frames.
C7_FallbackListsWhenHtmlRead ==
    pc = "done" =>
        /\ Len(fallback.dom) = 0 => fallback.state \in {"ran", "threw"}
        /\ fallback.state = "ran" => response.frames = MarkerIdsFrom(fallback.html, 1)
        /\ fallback.state = "threw" => response.frames = <<>>
        /\ Len(fallback.dom) > 0 =>
              fallback.state = "skipped" /\ response.frames = fallback.dom
        /\ response.count = Len(response.frames)

\* the fallback found ids, one of them twice, in a page without marker iframes
C7_Witness ==
    /\ pc = "done"
    /\ fallback.state = "ran"
    /\ Len(fallback.dom) = 0
    /\ response.count >= 2
    /\ response.count < Len(fallback.html)

\* the element records of the retained records that have a wrapped phrase,
\* with the label of their record, in the order of the records and lists
RECURSIVE WrappedOfList(_, _, _)
WrappedOfList(label, list, k) ==
    IF k > Len(list) THEN <<>>
    ELSE (IF \E n \in 1..Len(list[k].allModelStatuses) :
                  /\ list[k].allModelStatuses[n].found
                  /\ list[k].allModelStatuses[n].singleLine = FALSE
          THEN << [label |-> label, element |-> list[k]] >> ELSE <<>>)
         \o WrappedOfList(label, list, k + 1)

RECURSIVE WrappedOfRecord(_, _)
WrappedOfRecord(rec, c) ==
    IF c > 8 THEN <<>>
    ELSE WrappedOfList(rec.creativeVariation, rec[CategoryFields[c]], 1)
         \o WrappedOfRecord(rec, c + 1)

RECURSIVE WrappedOfRecords(_, _)
WrappedOfRecords(recs, i) ==
    IF i > Len(recs) THEN <<>>
    ELSE WrappedOfRecord(recs[i], 1) \o WrappedOfRecords(recs, i + 1)

\* C9: the flattened brokenModels has exactly one entry for every element of
\* every retained record, in any of the eight categories, that has a phrase
\* with found=true and singleLine=false, and no other entry; the entry
\* carries the record's label, the element id, the wrapped phrases, and
\* elementType 'HL' when the id contains '_HL_'.
C9_BrokenModelsExact ==
    pc = "done" =>
        LET wrapped == WrappedOfRecords(response.hlMatches, 1)
            bm == response.brokenModels
        IN  /\ Len(bm) = Len(wrapped)
            /\ \A n \in 1..Len(bm) :
                  LET e == wrapped[n].element
                  IN  /\ bm[n].creativeVariation = wrapped[n].label
                      /\ bm[n].elementId = e.id
                      /\ bm[n].outerHTML = e.outerHTML
                      /\ ModelsOf(bm[n].brokenModels) =
                             {e.allModelStatuses[k].model : k \in
                                 {k \in 1..Len(e.allModelStatuses) :
                                     e.allModelStatuses[k].singleLine = FALSE}}
                      /\ (\E x \in 1..(Len(e.id) - 2) :
                              e.id[x] = "_" /\ e.id[x + 1] = "HL" /\ e.id[x + 2] = "_")
                             => bm[n].elementType = "HL"

\* the scenario of the spec: "MAZDA CX-60" on two lines in frm1_HL_x of the
\* creative Char_Limit-10, and a wrapped phrase in an SL list as well
C9_Witness ==
    /\ pc = "done"
    /\ \E n \in 1..Len(response.brokenModels) :
          /\ response.brokenModels[n].creativeVariation = LabelA
          /\ response.brokenModels[n].elementType = "HL"
          /\ response.brokenModels[n].elementId = ElBroken.id
          /\ ModelsOf(response.brokenModels[n].brokenModels) = {mazdaModels[1]}
    /\ \E n \in 1..Len(response.brokenModels) :
          response.brokenModels[n].elementId = ElTwo.id

(***************************************************************************)
(* Resolver runs: calls of associateElementsForType for the category frm1  *)
(* that share one used-id set                                              *)
(***************************************************************************)
MaxElements == 2   \* collected elements of the category
MaxIndex == 1      \* largest idx of a call; containerIndex goes one further

UrlF == <<"http://h/f">>
UrlG == <<"http://h/g">>
Title10 == <<"Char_Limit-", "1", "0">>
TitleB == <<"B">>
\* a title that reads like the key of container 0 titled "B"
TitleKey == <<"B", "__container_", "0">>

\* frm1_HL_x210y: contains "10", next to no separator
ResContains == [id |-> CategoryPrefix(1) \o <<"x", "2", "1", "0", "y">>,
                frameUrl |-> UrlF, frameName |-> JA, jvxBaseId |-> JA]
\* frm1_HL_10
ResExact == [id |-> CategoryPrefix(1) \o <<"1", "0">>,
             frameUrl |-> UrlG, frameName |-> JB, jvxBaseId |-> JB]
\* frm1_HL_a
ResPlain == [id |-> CategoryPrefix(1) \o <<"a">>,
             frameUrl |-> UrlF, frameName |-> JB, jvxBaseId |-> JB]

\* frm1_HL_a10: ends with "10", next to no separator
ResSuffix == [id |-> CategoryPrefix(1) \o <<"a", "1", "0">>,
              frameUrl |-> UrlG, frameName |-> JB, jvxBaseId |-> JB]

\* the elements a collected list is drawn from; ResPlain stays an id the
\* proximity pass saw that the collection did not keep
ResElementPool == {ResContains, ResExact, ResSuffix}

\* the lists the collection can build: no id twice
CollectedLists ==
    {l \in SeqsUpTo(ResElementPool, MaxElements) :
        \A i, j \in 1..Len(l) : i # j => l[i].id # l[j].id}

\* the containers the proximity pass found, with the ids found near each
AssocPool ==
    { <<>>,
      << [title |-> Title10, containerIndex |-> 0, elementIds |-> <<>>,
          frameUrl |-> UrlF, jvxBaseIframeId |-> JB],
         [title |-> TitleB, containerIndex |-> 1, elementIds |-> <<ResPlain.id, ResContains.id>>,
          frameUrl |-> UrlF, jvxBaseIframeId |-> <<>>] >>,
      << [title |-> TitleB, containerIndex |-> 0, elementIds |-> <<ResExact.id>>,
          frameUrl |-> UrlF, jvxBaseIframeId |-> <<>>] >> }

TitlesOf(assocs) ==
    [i \in 1..Len(assocs) |-> [text |-> assocs[i].title, containerIndex |-> assocs[i].containerIndex]]

ResConfig(allElements, assocs, titles) ==
    [allElements |-> allElements,
     jvxBaseIds |-> {allElements[i].jvxBaseId : i \in 1..Len(allElements)},
     creativeAssociationsMap |-> BuildAssociations(assocs, <<>>),
     titleFrameMap |-> BuildTitleFrameMap(assocs, <<>>),
     previewVariationTitles |-> titles]

ResInit ==
    /\ pc = "resolve"
    /\ \E l \in CollectedLists, a \in AssocPool :
          rcfg = ResConfig(l, a, IF Len(a) = 1
                                 THEN <<[text |-> TitleKey, containerIndex |-> 0]>> \o TitlesOf(a)
                                 ELSE TitlesOf(a))
    /\ usedElementSet = {}
    /\ call = NoCall
    /\ returnedIds = {}
    /\ dupReturn = FALSE
    /\ DetIdle
    /\ ScanIdle

\* one call for a container; the history variables record what it returned
IdsOf(list) == {list[i].id : i \in 1..Len(list)}

\* the effect of a call that returned r = [result, used]
Returned(r, titleText, titleFrame, idx, containerIndex) ==
    /\ usedElementSet' = r.used
    /\ call' = [titleText |-> titleText, titleFrame |-> titleFrame, idx |-> idx,
                containerIndex |-> containerIndex, usedBefore |-> usedElementSet,
                result |-> r.result]
    /\ returnedIds' = returnedIds \cup IdsOf(r.result)
    /\ dupReturn' = (dupReturn \/ IdsOf(r.result) \cap returnedIds # {})

Associate(titleText, titleFrame, idx, containerIndex) ==
    /\ pc = "resolve"
    /\ Returned(associateElementsForType(rcfg, usedElementSet, titleText, titleFrame, idx,
                                         containerIndex, CategoryPrefix(1)),
                titleText, titleFrame, idx, containerIndex)
    /\ UNCHANGED <<pc, rcfg, detVars, scanVars>>

ResNext ==
    \E titleText \in {Title10, TitleB, TitleKey}, titleFrame \in {<<>>, UrlF},
       idx \in 0..MaxIndex, containerIndex \in {Undefined} \cup 0..(MaxIndex + 1) :
        Associate(titleText, titleFrame, idx, containerIndex)

SpecResolve == ResInit /\ [][ResNext]_vars

(***************************************************************************)
(* Claims about the resolver                                               *)
(***************************************************************************)
\* C1: over the calls that share one used-id set, no element id is returned
\* by two different calls: every element a call returns was absent from the
\* used-id set when that call started.
C1_NoElementReturnedTwice ==
    /\ ~dupReturn
    /\ call # NoCall =>
          \A i \in 1..Len(call.result) : call.result[i].id \notin call.usedBefore

\* a call returned an element after another call had returned a different one
C1_Witness ==
    /\ call # NoCall
    /\ Len(call.result) = 1
    /\ call.usedBefore # {}
    /\ Cardinality(returnedIds) >= 2

\* what each strategy yields for the last call, on the state it started in
YieldOf(n) ==
    LET unused == UnusedOf(rcfg.allElements, call.usedBefore)
    IN  CASE n = 1 -> Strategy1(rcfg, call.usedBefore, call.titleText, call.containerIndex)
          [] n = 2 -> Strategy2(rcfg, call.usedBefore, call.containerIndex)
          [] n = 3 -> Strategy3(rcfg, call.usedBefore, call.titleText, call.idx, call.containerIndex)
          [] n = 4 -> Strategy4(unused, call.titleText, CategoryPrefix(1))
          [] n = 5 -> Strategy5(rcfg, unused, call.titleText, call.titleFrame)
          [] n = 6 -> Strategy6(unused, call.idx)

\* the yield of the earliest strategy of the list that yields an element
RECURSIVE EarliestYield(_, _)
EarliestYield(order, k) ==
    IF k > Len(order) THEN <<>>
    ELSE IF YieldOf(order[k]) # <<>> THEN YieldOf(order[k])
    ELSE EarliestYield(order, k + 1)

UnusedAtCall ==
    LET Unused(el) == el.id \notin call.usedBefore
    IN  SelectSeq(rcfg.allElements, Unused)

\* C11: whenever some element of the category is not in the used-id set
\* when associateElementsForType is called, the call returns a non-empty
\* list; it returns the empty list only when no unused element remains.
C11_AssignsWhileUnusedRemains ==
    call # NoCall => (call.result # <<>> <=> UnusedAtCall # <<>>)

\* a call that only the sequential strategy served, with idx past the end
\* of the unused elements
C11_Witness ==
    /\ call # NoCall
    /\ \A n \in 1..5 : YieldOf(n) = <<>>
    /\ call.idx >= Len(UnusedAtCall)
    /\ call.result # <<>>

\* C20 as stated: when the round-robin fallback is reached with unused
\* elements, the element assigned is
\* unusedElements[containerIndex mod unusedElements.length].
C20_RoundRobinByContainerIndex ==
    (/\ call # NoCall
     /\ \A n \in 1..5 : YieldOf(n) = <<>>
     /\ UnusedAtCall # <<>>
     /\ call.containerIndex # Undefined)
        => call.result = <<UnusedAtCall[(call.containerIndex % Len(UnusedAtCall)) + 1]>>

\* C20 amended: the element assigned is unusedElements[idx mod
\* unusedElements.length], idx being the creative index passed to the call.
C20_RoundRobinByIdx ==
    (/\ call # NoCall
     /\ \A n \in 1..5 : YieldOf(n) = <<>>
     /\ UnusedAtCall # <<>>)
        => call.result = <<UnusedAtCall[(call.idx % Len(UnusedAtCall)) + 1]>>

\* the fallback served a call whose idx and containerIndex pick different
\* elements of two unused ones
C20_Witness ==
    /\ call # NoCall
    /\ \A n \in 1..5 : YieldOf(n) = <<>>
    /\ Len(UnusedAtCall) = 2
    /\ call.containerIndex # Undefined
    /\ call.idx % 2 # call.containerIndex % 2
    /\ call.result = <<UnusedAtCall[(call.idx % 2) + 1]>>

\* the marker frame id recorded for the container of the last call
MarkerIdAtCall ==
    MapGetOrEmpty(rcfg.titleFrameMap,
                  <<"jvxBase_">> \o ContainerKey(call.titleText, call.containerIndex))

\* the unused elements of the category collected from that marker frame
FrameUnusedAtCall ==
    LET InFrame(el) == el.jvxBaseId = MarkerIdAtCall
    IN  SelectSeq(UnusedAtCall, InFrame)

\* C21: when the container has a non-empty marker frame id and that id has
\* collected elements, the call returns the first element, in collection
\* order, of that frame's elements of the category that is not in the
\* used-id set; an element of another frame is returned only if the frame
\* has no unused element of the category.
C21_MarkerFrameFirst ==
    (/\ call # NoCall
     /\ MarkerIdAtCall # <<>>
     /\ MarkerIdAtCall \in rcfg.jvxBaseIds)
        => /\ FrameUnusedAtCall # <<>> => call.result = <<FrameUnusedAtCall[1]>>
           /\ \A i \in 1..Len(call.result) :
                 call.result[i].jvxBaseId # MarkerIdAtCall => FrameUnusedAtCall = <<>>

\* the marker frame served a call after an earlier call had used the first
\* element collected from that frame
C21_Witness ==
    /\ call # NoCall
    /\ MarkerIdAtCall # <<>>
    /\ \E i \in 1..Len(rcfg.allElements) :
          /\ rcfg.allElements[i].jvxBaseId = MarkerIdAtCall
          /\ rcfg.allElements[i].id \in call.usedBefore
    /\ FrameUnusedAtCall # <<>>
    /\ call.result = <<FrameUnusedAtCall[1]>>

\* containerIndex names an unused element of the category's full list
PositionUnusedAtCall ==
    /\ call.containerIndex # Undefined
    /\ call.containerIndex >= 0
    /\ call.containerIndex < Len(rcfg.allElements)
    /\ rcfg.allElements[call.containerIndex + 1].id \notin call.usedBefore

\* C22: when the marker-frame strategy yields nothing, the call returns the
\* element at position containerIndex of the category's full ordered list
\* if containerIndex is in range and that element is unused; if the index
\* is out of range or the element is already used, the positional strategy
\* yields nothing and marks nothing as used: the result is the choice of
\* the later strategies and the set grows by that choice alone.
C22_PositionalMatch ==
    (call # NoCall /\ YieldOf(1) = <<>>)
        => IF PositionUnusedAtCall
           THEN /\ call.result = <<rcfg.allElements[call.containerIndex + 1]>>
                /\ usedElementSet = call.usedBefore \cup IdsOf(call.result)
           ELSE /\ call.result = EarliestYield(<<3, 4, 5, 6>>, 1)
                /\ usedElementSet = call.usedBefore \cup IdsOf(call.result)
                /\ call.containerIndex # Undefined /\ call.containerIndex < Len(rcfg.allElements)
                      => rcfg.allElements[call.containerIndex + 1].id \notin IdsOf(call.result)

\* a call whose containerIndex is past the end of a non-empty list, served
\* by a later strategy
C22_Witness ==
    /\ call # NoCall
    /\ YieldOf(1) = <<>>
    /\ call.containerIndex # Undefined
    /\ call.containerIndex >= Len(rcfg.allElements)
    /\ Len(rcfg.allElements) > 0
    /\ call.result # <<>>
    /\ usedElementSet = call.usedBefore \cup IdsOf(call.result)

\* the number of the title of the last call and the unused elements whose
\* id contains it
NumberAtCall == FirstNumber(call.titleText)

ContainingAtCall ==
    LET Contains(el) == includes(el.id, NumberAtCall)
    IN  SelectSeq(UnusedAtCall, Contains)

\* the number stands next to "-" or "_" or right after the category prefix
NextToSeparator(id, n) ==
    \/ includes(id, <<"-">> \o n) \/ includes(id, n \o <<"-">>)
    \/ includes(id, <<"_">> \o n) \/ includes(id, n \o <<"_">>)
    \/ includes(id, CategoryPrefix(1) \o n)

\* ... or next to "x", or at the end of the id
NextToSeparatorOrLast(id, n) ==
    \/ NextToSeparator(id, n)
    \/ includes(id, <<"x">> \o n) \/ includes(id, n \o <<"x">>)
    \/ Len(id) >= Len(n) /\ n = SliceFrom(id, Len(id) - Len(n))

\* the numeric-pattern strategy decided the last call
NumericDecided ==
    /\ call # NoCall
    /\ \A k \in 1..3 : YieldOf(k) = <<>>
    /\ NumberAtCall # <<>>
    /\ ContainingAtCall # <<>>

\* C23 as stated: with n the first integer substring of the title, whenever
\* some unused element of the category has an id containing n adjacent to a
\* separator or to the category prefix, the strategy selects such an
\* element in preference to any unused element whose id merely contains n;
\* only when none exists does it accept an element that merely contains n.
C23_PrefersSeparator ==
    NumericDecided =>
        /\ Len(call.result) = 1
        /\ includes(call.result[1].id, NumberAtCall)
        /\ (\E i \in 1..Len(ContainingAtCall) :
                NextToSeparator(ContainingAtCall[i].id, NumberAtCall))
              => NextToSeparator(call.result[1].id, NumberAtCall)

\* C23 amended: whenever some unused element of the category has an id
\* containing n adjacent to a separator ("-", "_" or "x") or to the
\* category prefix, or ending with n, the strategy selects such an element
\* in preference to any unused element whose id merely contains n; only
\* when none exists does it accept an element that merely contains n.
C23_PrefersSeparatorOrLast ==
    NumericDecided =>
        /\ Len(call.result) = 1
        /\ includes(call.result[1].id, NumberAtCall)
        /\ (\E i \in 1..Len(ContainingAtCall) :
                NextToSeparatorOrLast(ContainingAtCall[i].id, NumberAtCall))
              => NextToSeparatorOrLast(call.result[1].id, NumberAtCall)

\* the strategy passed over an earlier element that merely contains the
\* number and selected a later one that ends with it
C23_Witness ==
    /\ NumericDecided
    /\ Len(ContainingAtCall) = 2
    /\ ~NextToSeparatorOrLast(ContainingAtCall[1].id, NumberAtCall)
    /\ ~NextToSeparator(ContainingAtCall[2].id, NumberAtCall)
    /\ call.result = <<ContainingAtCall[2]>>

\* C30: each call returns at most one element and changes the used-id set
\* by exactly that element: a call that returns an element adds its id and
\* no other id, a call that returns the empty list leaves the set
\* unchanged, and no call removes an id from the set.
C30_UsedSetGrowsByResult ==
    call # NoCall =>
        /\ Len(call.result) <= 1
        /\ call.usedBefore \subseteq usedElementSet
        /\ usedElementSet \ call.usedBefore = IdsOf(call.result)

\* a call on a non-empty used-id set that returned one element and added
\* its id
C30_Witness ==
    /\ call # NoCall
    /\ call.usedBefore # {}
    /\ Len(call.result) = 1
    /\ Cardinality(usedElementSet) = Cardinality(call.usedBefore) + 1
    /\ call.result[1].id \in usedElementSet

(***************************************************************************)
(* Further claims about the frame scan and the response                    *)
(***************************************************************************)
\* the ids of a list of element records are pairwise distinct
DistinctIds(list) ==
    \A i, j \in 1..Len(list) : list[i].id = list[j].id => i = j

\* C12: in every record of the returned hlMatches, each of the eight
\* per-category element lists contains pairwise distinct element ids, also
\* after the lists of several frames sharing one label have been merged.
C12_ListsHaveDistinctIds ==
    pc = "done" =>
        \A i \in 1..Len(response.hlMatches) : \A c \in 1..8 :
            DistinctIds(response.hlMatches[i][CategoryFields[c]])

\* C16: a phrase that is found but whose range yields zero client
\* rectangles is reported with found=true and a singleLine that is not
\* false, and is not listed as a wrapped phrase in brokenModels.
C16_ZeroRectsNotWrapped ==
    \A e \in ElementRecordsOf(hlMatches) :
        \A n \in 1..Len(e.allModelStatuses) :
            e.allModelStatuses[n].rectsCount = 0 =>
                /\ e.allModelStatuses[n].found
                /\ e.allModelStatuses[n].singleLine # FALSE
                /\ e.allModelStatuses[n].model \notin ModelsOf(e.brokenModels)

\* the elements of category c that the scan collected, over all records, in
\* the order of the frames
CollectedOfCategory(recs, c) ==
    ConcatLists([i \in 1..Len(recs) |-> recs[i][CategoryFields[c]]], 1)

\* C13: for each of the eight id-prefix categories, an element id collected
\* from one frame is never collected again from another frame, so the
\* collected list of the category has no repeated id.
C13_CollectedOncePerRequest ==
    \A c \in 1..8 : DistinctIds(CollectedOfCategory(hlMatches, c))

\* C17: within one page load, no two entries of previewVariationTitles have
\* the same containerIndex, whatever the number of frames that contain
\* preview containers.
C17_ContainerIndexUnique ==
    \A i, j \in 1..Len(previewVariationTitles) :
        previewVariationTitles[i].containerIndex = previewVariationTitles[j].containerIndex
            => i = j

\* the frames whose evaluation did not fail
ReadableFrames(fs) ==
    LET Ok(f) == f.access = "ok"
    IN  SelectSeq(fs, Ok)

C15_ExactlyOneResponse ==
    /\ sent <= 1
    /\ sent = 0 <=> pc \notin {"done", "failed", "rejected"}
    /\ sent = 0 <=> response = NoResponse
    /\ sent = 1 =>
          IF response.ok
          THEN status = 200 /\ browser # "none" /\ navigated
          ELSE /\ response.error # <<>>
               /\ status = IF url = <<>> THEN 400 ELSE 500
               /\ url = <<>> => browser = "none"
               /\ ~(browser # "none" /\ navigated)

\* an internal failure after the launch, with an error that has no message
C15_Witness ==
    /\ pc = "failed"
    /\ sent = 1
    /\ status = 500
    /\ browser # "none"
    /\ response.error = <<"Unknown error">>

(***************************************************************************)
(* Claims about two interleaved requests                                   *)
(***************************************************************************)
\* the whole scan of the frames fs of the page pg
RECURSIVE ScanAllOn(_, _, _, _)
ScanAllOn(pg, hl, fs, k) ==
    IF k > Len(fs) THEN hl ELSE ScanAllOn(pg, ScanFrame(hl, pg, fs[k]), fs, k + 1)

\* frames of the response of a request run alone, given what its DOM query
\* and its read of the raw HTML returned
AloneFrames(fb) ==
    IF fb.state = "ran" THEN FallbackFrames(fb.html) ELSE fb.dom

\* the request rq is where it would be had it run alone on its own page
AsAlone(rq) ==
    /\ rq.pc \in {"query", "scan", "close", "respond", "done"} =>
          rq.previewVariationTitles = CollectTitles(rq.frames, 1, <<>>)
    /\ rq.pc = "scan" =>
          rq.hlMatches = ScanAllOn(rq.page, <<>>, SubSeq(rq.frames, 1, rq.fi - 1), 1)
    /\ rq.pc \in {"close", "respond", "done"} =>
          rq.hlMatches = ScanAllOn(rq.page, <<>>, rq.frames, 1)
    /\ rq.pc = "done" =>
          /\ rq.response = BuildResponse(ScanAllOn(rq.page, <<>>, rq.frames, 1),
                                         AloneFrames(rq.fallback))
          /\ rq.browser \in {"closed", "closeFailed"}
    /\ rq.pc = "rejected" =>
          rq.response = [ok |-> FALSE, error |-> <<"Missing ?url=">>] /\ rq.browser = "none"
    /\ rq.pc = "failed" =>
          /\ ~rq.response.ok
          /\ rq.hlMatches = <<>>
          /\ IF includes(rq.response.error,
                         <<"Failed to launch browser after 3 attempts. Original error: ">>)
             THEN rq.browser = "none"
             ELSE rq.browser \in {"closed", "closeFailed"}
    /\ rq.pc \in {"request", "launch"} => rq.browser = "none"
    /\ rq.pc \in {"newPage", "navigate", "settle", "titles", "query", "scan", "close"} =>
          rq.browser = "open"

\* C19: two requests whose steps interleave at any await point share no
\* mutable state: what each request has collected, the state of its
\* browser and its response are those of the request run alone.
C19_RequestsIndependent ==
    AsAlone(Suspended) /\ AsAlone(peer)

\* one request was suspended inside its frame loop, with a frame recorded,
\* and the other request ran to its response meanwhile
C19_Witness ==
    /\ pc = "done"
    /\ response.hlMatches # <<>>
    /\ peer.pc = "scan"
    /\ peer.fi = 2
    /\ peer.hlMatches # <<>>
    /\ peer.hlMatches # hlMatches
\* the four sources of a frame's label, each <<>> when it yields nothing:
\* the title mapped to the marker id matched for the frame, the title mapped
\* to the frame's name, the title of the first mapped marker id contained
\* in the frame URL or name, the title element inside the frame
LabelSource(n, f) ==
    LET titles == page.variations
        matchedId == MatchJvxBaseId(page.iframes, f.url, f.name)
        TitleOf(id) ==
            IF \E k \in 1..Len(titles) : titles[k].jvxBaseId = id
            THEN titles[CHOOSE k \in 1..Len(titles) :
                            /\ titles[k].jvxBaseId = id
                            /\ \A j \in (k + 1)..Len(titles) : titles[j].jvxBaseId # id].creativeVariation
            ELSE <<>>
        Contained(k) == includes(f.url, titles[k].jvxBaseId) \/ includes(f.name, titles[k].jvxBaseId)
    IN  CASE n = 1 -> IF matchedId = <<>> THEN <<>> ELSE TitleOf(matchedId)
          [] n = 2 -> IF f.name = <<>> THEN <<>> ELSE TitleOf(f.name)
          [] n = 3 -> IF \E k \in 1..Len(titles) : Contained(k)
                      THEN TitleOf(titles[CHOOSE k \in 1..Len(titles) :
                                              Contained(k) /\ \A j \in 1..(k - 1) : ~Contained(j)].jvxBaseId)
                      ELSE <<>>
          [] n = 4 -> f.title

\* the first source, from source n on, that yields a non-empty value;
\* 'N/A' when none does
RECURSIVE LabelFrom(_, _)
LabelFrom(n, f) ==
    IF n > 4 THEN NA
    ELSE IF LabelSource(n, f) # <<>> THEN LabelSource(n, f)
    ELSE LabelFrom(n + 1, f)

\* the step recorded frame f under the label: it merged f into the record
\* that already had this label, or pushed a record with it for f
RecordedUnder(before, after, f, label) ==
    IF ValidLabel(label) /\ \E i \in 1..Len(before) : before[i].creativeVariation = label
    THEN /\ Len(after) = Len(before)
         /\ \A i \in 1..Len(before) : after[i].creativeVariation = before[i].creativeVariation
    ELSE /\ Len(after) = Len(before) + 1
         /\ after[Len(after)].creativeVariation = label
         /\ after[Len(after)].frameUrl = f.url
         /\ after[Len(after)].frameName = f.name

\* the scan step of a frame that was read and is recorded
ScansReadFrame ==
    /\ pc = "scan"
    /\ fi <= Len(frames)
    /\ fi' = fi + 1
    /\ frames[fi].access = "ok"
    /\ FrameRecorded(frames[fi])

BrokenAmongStatuses(e) ==
    /\ \A n \in 1..Len(e.brokenModels) :
          /\ e.brokenModels[n].singleLine = FALSE
          /\ \E k \in 1..Len(e.allModelStatuses) :
                /\ e.allModelStatuses[k].model = e.brokenModels[n].model
                /\ e.allModelStatuses[k].singleLine = FALSE
    /\ e.brokenModels # <<>> => e.allModelStatuses # <<>>

\* C29: for every collected element record, each entry of its brokenModels
\* also appears in its allModelStatuses with the same phrase and
\* singleLine=false, and brokenModels is non-null only if allModelStatuses
\* is non-null; hence every element id in the response's flattened
\* brokenModels also appears in the flattened allModelStatuses.
C29_BrokenWithinStatuses ==
    /\ \A e \in ElementRecordsOf(hlMatches) : BrokenAmongStatuses(e)
    /\ pc = "done" =>
          /\ \A e \in ElementRecordsOf(response.hlMatches) : BrokenAmongStatuses(e)
          /\ \A n \in 1..Len(response.brokenModels) :
                \E k \in 1..Len(response.allModelStatuses) :
                    /\ response.allModelStatuses[k].elementId = response.brokenModels[n].elementId
                    /\ response.allModelStatuses[k].creativeVariation
                          = response.brokenModels[n].creativeVariation

\* the response lists an element with a wrapped phrase and a phrase on one
\* line: one entry in its brokenModels, two in its statuses
C29_Witness ==
    /\ pc = "done"
    /\ \E n \in 1..Len(response.brokenModels) :
          \E k \in 1..Len(response.allModelStatuses) :
              /\ response.allModelStatuses[k].elementId = response.brokenModels[n].elementId
              /\ Len(response.brokenModels[n].brokenModels) = 1
              /\ Len(response.allModelStatuses[k].modelStatuses) = 2

\* what a step of the handler may do, by the place the handler is at
NavigationStep ==
    /\ pc = "navigate" => attempt \in 1..maxRetries /\ ~navigated
    /\ pc' = "navigate" =>
          \/ pc = "newPage" /\ attempt' = 1
          \/ pc = "navigate" /\ attempt' = attempt + 1 /\ ~navigated'
    /\ (navigated' /\ ~navigated) => (pc = "navigate" /\ pc' = "settle")
    /\ pc' = "titles" => (pc = "settle" /\ navigated)
    /\ (fi' # fi \/ hlMatches' # hlMatches \/ previewVariationTitles' # previewVariationTitles)
          => (navigated /\ pc \notin {"navigate", "settle"})
    /\ (pc = "navigate" /\ attempt = maxRetries /\ ~navigated') =>
          /\ pc' = "failed"
          /\ ~response'.ok
          /\ sent' = sent + 1
          /\ fi' = 1 /\ hlMatches' = <<>> /\ previewVariationTitles' = <<>>
    /\ pc # "failed"

\* C24: navigation is attempted at most maxRetries (3) times per request,
\* no attempt is made after one succeeds, the frame scan starts only after a
\* successful navigation followed by the settle delay, and after the last
\* failed attempt the request fails with ok=false without scanning any
\* frame.
C24_NavigationBounded == [][NavigationStep]_vars

\* the third attempt failed and the request was answered with the error,
\* no frame scanned
C24_Witness ==
    /\ pc = "failed"
    /\ includes(response.error, <<"Failed to navigate to URL after 3 attempts: ">>)
    /\ ~navigated
    /\ fi = 1
    /\ hlMatches = <<>>
    /\ sent = 1

\* C25 as stated: for browser launch and for navigation, the delay waited
\* before retry k+1 is strictly greater than the delay waited before retry
\* k, for every class of error that triggers the retry.
C25_IncreasingBackoff ==
    pc \in {"launch", "navigate"} =>
        \A k \in 1..(Len(waited) - 1) : waited[k + 1].ms > waited[k].ms

\* C25 amended: for browser launch, and for a navigation retry triggered by
\* a connection error, the delay waited before retry k+1 is strictly
\* greater than the delay waited before retry k; a navigation retry
\* triggered by any other error waits a constant 2000 ms.
C25_BackoffByErrorClass ==
    /\ pc = "launch" =>
          \A k \in 1..(Len(waited) - 1) : waited[k + 1].ms > waited[k].ms
    /\ pc = "navigate" =>
          /\ \A k \in 1..(Len(waited) - 1) :
                waited[k + 1].connection => waited[k + 1].ms > waited[k].ms
          /\ \A k \in 1..Len(waited) : ~waited[k].connection => waited[k].ms = 2000

\* the navigation loop waited twice, the second time longer, after a
\* connection error
C25_Witness ==
    /\ pc = "navigate"
    /\ Len(waited) = 2
    /\ waited[2].connection
    /\ waited[2].ms > waited[1].ms

====
